---- MODULE Spec2Model ----
(***************************************************************************)
(* Model of the Monte Carlo risk analysis engine of APEX                   *)
(* (src/src/apex/services/risk_analysis.py).                               *)
(*                                                                         *)
(* Number representation (Python floats become scaled integers):           *)
(*   - risk factor parameters are in percent of base cost (1e-2);          *)
(*   - sample values are in basis points of base cost (1e-4);              *)
(*   - a uniform sample u in [0,1) is the integer 24*u: with N <= 4        *)
(*     strata the stratum midpoints (2s-1)/(2N) and the rank quantiles     *)
(*     (r-0.5)/N are all multiples of 1/24;                                *)
(*   - correlation matrix entries are in units of 1e-4;                    *)
(*   - base_cost and the results are in units of 1e-3 dollar.              *)
(* The quantile functions of scipy (norm.ppf, lognorm.ppf, beta.ppf) are   *)
(* tabulated at the grid points; their argument checks (a NaN result for   *)
(* an invalid shape or scale) are modelled from scipy's behaviour.         *)
(***************************************************************************)
EXTENDS Integers, Sequences, FiniteSets, TLC

\* ------------------------------------------------------------------ bounds
MaxFactors == 2
MaxIterations == 3
MaxLevels == 2
MaxCalls == 3
MaxTasks == 2
MaxRequests == 2
MaxParses == 2
MaxThreshold == 2
MaxTime == 4

\* ------------------------------------------------------- generic helpers
Abs(x) == IF x < 0 THEN -x ELSE x

Range(f) == {f[i] : i \in DOMAIN f}

RECURSIVE SumSeq(_)
SumSeq(s) == IF s = <<>> THEN 0 ELSE Head(s) + SumSeq(Tail(s))

\* floor of the square root of a natural number (bisection)
RECURSIVE ISqrtIn(_, _, _)
ISqrtIn(x, lo, hi) ==
    IF lo >= hi THEN lo
    ELSE LET mid == (lo + hi + 1) \div 2
         IN IF mid * mid <= x THEN ISqrtIn(x, mid, hi) ELSE ISqrtIn(x, lo, mid - 1)

ISqrt(x) == IF x <= 0 THEN 0 ELSE ISqrtIn(x, 0, IF x < 46340 THEN x ELSE 46340)

\* nearest integer to num/den (den > 0), ties to the even neighbour: round()
RoundHalfEven(num, den) ==
    LET q == num \div den
        r == num % den
    IN IF 2 * r < den THEN q
       ELSE IF 2 * r > den THEN q + 1
       ELSE IF q % 2 = 0 THEN q ELSE q + 1

\* Optional[float]: None is <<>>, a value v is <<v>>
None == <<>>
Some(v) == <<v>>
IsNone(x) == x = <<>>
Val(x) == x[1]

\* float('nan') in a column of samples or in a result
NaN == -(1000 * 1000 * 1000)

\* the permutations of 1..n, as sequences
Perms(n) == {p \in [1..n -> 1..n] : \A i, j \in 1..n : i # j => p[i] # p[j]}

RECURSIVE Factorial(_)
Factorial(n) == IF n <= 1 THEN 1 ELSE n * Factorial(n - 1)

\* the k-th permutation (k >= 0) of the sequence items, in lexicographic order
RECURSIVE NthPerm(_, _)
NthPerm(items, k) ==
    IF items = <<>> THEN <<>>
    ELSE LET f == Factorial(Len(items) - 1)
             idx == ((k \div f) % Len(items)) + 1
             rest == [i \in 1..(Len(items) - 1) |->
                         IF i < idx THEN items[i] ELSE items[i + 1]]
         IN <<items[idx]>> \o NthPerm(rest, k % f)

\* matrices are sequences of rows; Col is the numpy slice M[:, j]
Col(M, j) == [i \in 1..Len(M) |-> M[i][j]]

\* ------------------------------------------------- exceptions and results
\* An exception: its class, the code of a BusinessRuleViolation, the fixed
\* text of the message and the value interpolated into the message.
Error(type, code, message, subject) ==
    [type |-> type, code |-> code, message |-> message, subject |-> subject]

NoError == Error("", "", "", "")

ValueError(message, subject) == Error("ValueError", "", message, subject)

BusinessRuleViolation(code, message) == Error("BusinessRuleViolation", code, message, "")

Raised(err) == [ok |-> FALSE, col |-> <<>>, err |-> err]
Returned(col) == [ok |-> TRUE, col |-> col, err |-> NoError]

\* ------------------------------------------------------------ RiskFactor
RiskFactor(name, distribution, min_value, most_likely, max_value, mean, std_dev) ==
    [name |-> name, distribution |-> distribution, min_value |-> min_value,
     most_likely |-> most_likely, max_value |-> max_value,
     mean |-> mean, std_dev |-> std_dev]

\* str.lower() on the distribution names the model uses
Lower(s) ==
    CASE s = "Triangular" -> "triangular"
      [] s = "PERT" -> "pert"
      [] OTHER -> s

\* ------------------------------------------- scipy quantile functions
\* norm.ppf(k/24) in units of 1e-4
NormPpf24(k) ==
    CASE k = 3 -> -11503 [] k = 4 -> -9674 [] k = 6 -> -6745 [] k = 8 -> -4307
      [] k = 9 -> -3186 [] k = 12 -> 0 [] k = 15 -> 3186 [] k = 16 -> 4307
      [] k = 18 -> 6745 [] k = 20 -> 9674 [] k = 21 -> 11503

\* lognorm.ppf(k/24, s=sigma, scale=exp(mu)) in units of 1e-4, for the
\* mu, sigma that lines 276-277 derive from mean**2 = 0.01, std**2 = 0.0025
LognormPpf24(k, mean2, std2) ==
    CASE mean2 = 100 /\ std2 = 25 ->
        CASE k = 3 -> 519 [] k = 4 -> 566 [] k = 6 -> 650 [] k = 9 -> 769
          [] k = 12 -> 894 [] k = 15 -> 1040 [] k = 18 -> 1230 [] k = 20 -> 1413
          [] k = 21 -> 1540

\* beta.ppf(k/24, alpha, beta_param) in units of 1e-4 for (3,3), (1,5), (5,1)
BetaPpf24(k, alpha, beta_param) ==
    CASE alpha = 3 /\ beta_param = 3 ->
        CASE k = 3 -> 2694 [] k = 4 -> 3027 [] k = 6 -> 3594 [] k = 9 -> 4325
          [] k = 12 -> 5000 [] k = 15 -> 5675 [] k = 18 -> 6406 [] k = 20 -> 6973
          [] k = 21 -> 7306
      [] alpha = 1 /\ beta_param = 5 ->
        CASE k = 3 -> 264 [] k = 4 -> 358 [] k = 6 -> 559 [] k = 9 -> 897
          [] k = 12 -> 1294 [] k = 15 -> 1781 [] k = 18 -> 2421 [] k = 20 -> 3012
          [] k = 21 -> 3402
      [] alpha = 5 /\ beta_param = 1 ->
        CASE k = 3 -> 6598 [] k = 4 -> 6988 [] k = 6 -> 7579 [] k = 9 -> 8219
          [] k = 12 -> 8706 [] k = 15 -> 9103 [] k = 18 -> 9441 [] k = 20 -> 9642
          [] k = 21 -> 9736

\* triang.ppf(u, c, loc, scale): NaN unless 0 <= c <= 1 and scale > 0.
\* c is the fraction cnum/scale (0.5 when scale <= 0, line 252).
TriangPpf(u, min_value, most_likely, max_value) ==
    LET scale == max_value - min_value
        cnum == most_likely - min_value
        valid == scale > 0 /\ 0 <= cnum /\ cnum <= scale
        one(k) ==
            IF k * scale < 24 * cnum
            THEN 100 * min_value + ISqrt((10000 * scale * cnum * k) \div 24)
            ELSE 100 * max_value
                   - ISqrt((10000 * scale * (max_value - most_likely) * (24 - k)) \div 24)
    IN [i \in DOMAIN u |-> IF valid THEN one(u[i]) ELSE NaN]

\* norm.ppf(u, loc, scale): NaN unless scale > 0
NormPpf(u, loc, scale) ==
    [i \in DOMAIN u |->
        IF scale > 0 THEN 100 * loc + ((scale * NormPpf24(u[i])) \div 100) ELSE NaN]

\* uniform.ppf(u, loc, scale): NaN unless scale > 0
UniformPpf(u, loc, scale) ==
    [i \in DOMAIN u |->
        IF scale > 0 THEN 100 * loc + ((100 * scale * u[i]) \div 24) ELSE NaN]

\* lognorm.ppf(u, s, scale) with s, scale from lines 276-277: s = 0 (NaN)
\* exactly when std = 0; mean and std enter only through their squares
LognormPpf(u, mean, std) ==
    [i \in DOMAIN u |->
        IF std # 0 THEN LognormPpf24(u[i], mean * mean, std * std) ELSE NaN]

\* ---------------------------------------------------- _transform_samples
\* the message of a missing required parameter ends with the factor's name
\* (lines 245-247, 258, 264, 270, 286); mutation: it ends with the distribution
RequiresParametersUnnamed(text, factor) ==
    Raised(ValueError(text, Lower(factor.distribution)))

RequiresParameters(text, factor) == Raised(ValueError(text, factor.name))

TransformSamples(u, factor) ==
    LET dist == Lower(factor.distribution)
    IN
    IF dist = "triangular" THEN
        IF IsNone(factor.min_value) \/ IsNone(factor.most_likely)
              \/ IsNone(factor.max_value)
        THEN RequiresParameters("Triangular distribution requires min, likely, max", factor)
        ELSE Returned(TriangPpf(u, Val(factor.min_value), Val(factor.most_likely),
                                Val(factor.max_value)))
    ELSE IF dist = "normal" THEN
        IF IsNone(factor.mean) \/ IsNone(factor.std_dev)
        THEN RequiresParameters("Normal distribution requires mean, std_dev", factor)
        ELSE Returned(NormPpf(u, Val(factor.mean), Val(factor.std_dev)))
    ELSE IF dist = "uniform" THEN
        IF IsNone(factor.min_value) \/ IsNone(factor.max_value)
        THEN RequiresParameters("Uniform distribution requires min, max", factor)
        ELSE Returned(UniformPpf(u, Val(factor.min_value),
                                 Val(factor.max_value) - Val(factor.min_value)))
    ELSE IF dist = "lognormal" THEN
        IF IsNone(factor.mean) \/ IsNone(factor.std_dev)
        THEN RequiresParameters("Lognormal distribution requires mean, std_dev", factor)
        ELSE IF Val(factor.mean) = 0
        THEN Raised(Error("ZeroDivisionError", "", "float division by zero", ""))
        ELSE Returned(LognormPpf(u, Val(factor.mean), Val(factor.std_dev)))
    ELSE IF dist = "pert" THEN
        IF IsNone(factor.min_value) \/ IsNone(factor.most_likely)
              \/ IsNone(factor.max_value)
        THEN RequiresParameters("PERT distribution requires min, likely, max", factor)
        ELSE LET min_val == Val(factor.min_value)
                 max_val == Val(factor.max_value)
                 mode == Val(factor.most_likely)
                 range_val == max_val - min_val
             IN IF max_val <= min_val
                THEN Raised(ValueError("PERT distribution requires max > min", factor.name))
                ELSE IF ~(min_val <= mode /\ mode <= max_val)
                THEN Raised(ValueError("PERT mode must be between min and max",
                                       factor.name))
                ELSE IF range_val > 0
                THEN LET alpha == 1 + ((4 * (mode - min_val)) \div range_val)
                         beta_param == 1 + ((4 * (max_val - mode)) \div range_val)
                     IN Returned([i \in DOMAIN u |->
                            100 * min_val
                              + ((range_val * BetaPpf24(u[i], alpha, beta_param)) \div 100)])
                ELSE Returned([i \in DOMAIN u |-> 100 * mode])
    ELSE Raised(ValueError("Unsupported distribution type", dist))

\* ------------------------------------------------ Latin Hypercube sampler
\* qmc.LatinHypercube(d, seed).random(n): one sample per stratum in every
\* column, the strata of column j in an order fixed by the seed; the sample
\* is taken at the stratum midpoint (2s-1)/(2n), returned as 24*u.
LatinHypercube(seed, n, d) ==
    LET strata(j) == NthPerm([s \in 1..n |-> s], seed + j - 1)
    IN [i \in 1..n |-> [j \in 1..d |-> ((2 * strata(j)[i] - 1) * 12) \div n]]

\* ------------------------------------------ _validate_correlation_matrix
\* ndarray.shape of a matrix held as a sequence of rows
Shape(M) == <<Len(M), IF Len(M) = 0 THEN 0 ELSE Len(M[1])>>

\* np.isclose(a, b) with rtol = 1e-5, atol = 1e-8, for a, b in units of 1e-4
IsClose(a, b) == Abs(a - b) <= ((10 + Abs(b)) \div 100000)

\* mutation of ValidateCorrelationMatrix: the diagonal is checked before symmetry
ValidateDiagonalFirst(correlation_matrix, n_vars) ==
    IF Shape(correlation_matrix) # <<n_vars, n_vars>>
    THEN BusinessRuleViolation("INVALID_CORRELATION_MATRIX_SHAPE",
                               "Correlation matrix shape doesn't match risk factors")
    ELSE IF ~(\A i \in 1..n_vars : IsClose(correlation_matrix[i][i], 10000))
    THEN BusinessRuleViolation("CORRELATION_MATRIX_INVALID_DIAGONAL",
                               "Correlation matrix diagonal must be all 1.0")
    ELSE IF ~(\A i, j \in 1..n_vars :
                 IsClose(correlation_matrix[i][j], correlation_matrix[j][i]))
    THEN BusinessRuleViolation("CORRELATION_MATRIX_NOT_SYMMETRIC",
                               "Correlation matrix must be symmetric")
    ELSE IF ~(\A i, j \in 1..n_vars :
                 correlation_matrix[i][j] >= -10000 /\ correlation_matrix[i][j] <= 10000)
    THEN BusinessRuleViolation("CORRELATION_MATRIX_OUT_OF_RANGE",
                               "Correlation matrix values must be in range [-1, 1]")
    ELSE NoError

ValidateCorrelationMatrix(correlation_matrix, n_vars) ==
    IF Shape(correlation_matrix) # <<n_vars, n_vars>>
    THEN BusinessRuleViolation("INVALID_CORRELATION_MATRIX_SHAPE",
                               "Correlation matrix shape doesn't match risk factors")
    ELSE IF ~(\A i, j \in 1..n_vars :
                 IsClose(correlation_matrix[i][j], correlation_matrix[j][i]))
    THEN BusinessRuleViolation("CORRELATION_MATRIX_NOT_SYMMETRIC",
                               "Correlation matrix must be symmetric")
    ELSE IF ~(\A i \in 1..n_vars : IsClose(correlation_matrix[i][i], 10000))
    THEN BusinessRuleViolation("CORRELATION_MATRIX_INVALID_DIAGONAL",
                               "Correlation matrix diagonal must be all 1.0")
    ELSE IF ~(\A i, j \in 1..n_vars :
                 correlation_matrix[i][j] >= -10000 /\ correlation_matrix[i][j] <= 10000)
    THEN BusinessRuleViolation("CORRELATION_MATRIX_OUT_OF_RANGE",
                               "Correlation matrix values must be in range [-1, 1]")
    ELSE NoError

\* ---------------------------------------------------- np.linalg.cholesky
\* Row by row on the lower triangle, entries in units of 1e-4; LinAlgError
\* (ok = FALSE) when a pivot is not positive.
RECURSIVE CholeskyFrom(_, _, _, _)
CholeskyFrom(M, L, i, row) ==
    LET n == Len(M)
    IN IF i > n THEN [ok |-> TRUE, L |-> L]
       ELSE LET j == Len(row) + 1
                s == SumSeq([k \in 1..(j - 1) |->
                                row[k] * (IF j = i THEN row[k] ELSE L[j][k])])
            IN IF j = i
               THEN LET piv == 10000 * M[i][i] - s
                    IN IF piv <= 0 THEN [ok |-> FALSE, L |-> <<>>]
                       ELSE CholeskyFrom(M,
                               Append(L, row \o <<ISqrt(piv)>> \o [k \in 1..(n - i) |-> 0]),
                               i + 1, <<>>)
               ELSE CholeskyFrom(M, L, i, Append(row, (10000 * M[i][j] - s) \div L[j][j]))

Cholesky(M) == CholeskyFrom(M, <<>>, 1, <<>>)

\* ------------------------------------------------------ numpy / scipy ranks
HasNaN(v) == \E i \in DOMAIN v : v[i] = NaN

MatrixHasNaN(M) == \E i \in DOMAIN M : HasNaN(M[i])

\* 2 * scipy.stats.rankdata(v) (method "average": ties share the mean rank)
Rank2(v) ==
    [i \in DOMAIN v |->
        2 * Cardinality({k \in DOMAIN v : v[k] < v[i]})
          + Cardinality({k \in DOMAIN v : v[k] = v[i]}) + 1]

\* np.sort(v)
Sort(v) ==
    [r \in DOMAIN v |->
        CHOOSE x \in Range(v) :
            /\ Cardinality({k \in DOMAIN v : v[k] < x}) < r
            /\ r <= Cardinality({k \in DOMAIN v : v[k] <= x})]

\* np.argsort(v): the default sort is not stable, so equal keys may come out
\* in any order: the set of index orders (as permutations) that sort v
ArgsortSet(v) ==
    {p \in Perms(Len(v)) : \A r \in 1..(Len(v) - 1) : v[p[r]] <= v[p[r + 1]]}

\* all sequences taking their r-th element from sets[r]
RECURSIVE ChoiceSeqs(_)
ChoiceSeqs(sets) ==
    IF sets = <<>> THEN {<<>>}
    ELSE {<<x>> \o rest : x \in Head(sets), rest \in ChoiceSeqs(Tail(sets))}

\* --------------------------------------------------- _apply_iman_conover
\* lines 363-370: ranks -> normal quantiles -> correlated scores -> ranks
CorrelatedRanks(samples, L) ==
    LET n_samples == Len(samples)
        n_vars == Len(L)
        ranked == [j \in 1..n_vars |-> Rank2(Col(samples, j))]
        normals == [i \in 1..n_samples |-> [k \in 1..n_vars |->
                       NormPpf24(((ranked[k][i] - 1) * 12) \div n_samples)]]
        correlated == [i \in 1..n_samples |-> [j \in 1..n_vars |->
                          SumSeq([k \in 1..n_vars |-> normals[i][k] * L[j][k]])]]
    IN [j \in 1..n_vars |-> Rank2(Col(correlated, j))]

\* mutation of Reorder: the sorted values are always taken from column 0
ReorderFirstColumn(samples, orders) ==
    [i \in 1..Len(samples) |-> [j \in 1..Len(orders) |->
        LET sorted_original == Sort(Col(samples, 1))
            r == CHOOSE q \in 1..Len(samples) : orders[j][q] = i
        IN sorted_original[r]]]

\* mutation of Reorder: the sorted values are written largest first
ReorderDescending(samples, orders) ==
    [i \in 1..Len(samples) |-> [j \in 1..Len(orders) |->
        LET sorted_original == Sort(Col(samples, j))
            r == CHOOSE q \in 1..Len(samples) : orders[j][q] = i
        IN sorted_original[Len(samples) + 1 - r]]]

\* lines 373-382: result[order, j] = sorted_original, for one order per column
Reorder(samples, orders) ==
    [i \in 1..Len(samples) |-> [j \in 1..Len(orders) |->
        LET sorted_original == Sort(Col(samples, j))
            r == CHOOSE q \in 1..Len(samples) : orders[j][q] = i
        IN sorted_original[r]]]

\* mutation of NotPositiveDefinite: the rank matrix is returned
NotPositiveDefiniteRanked(samples) ==
    [i \in 1..Len(samples) |-> [j \in 1..Len(samples[1]) |-> Rank2(Col(samples, j))[i]]]

\* lines 359-361: on LinAlgError the original samples are returned
NotPositiveDefinite(samples) == samples

\* The matrices _apply_iman_conover may return (more than one only where
\* np.argsort meets equal keys). A NaN among the samples makes every score
\* NaN (0 * NaN = NaN in the matrix product), and the order numpy and scipy
\* give NaN keys depends on their version: any order.
ApplyImanConover(samples, correlation_matrix) ==
    LET n_samples == Len(samples)
        n_vars == Len(samples[1])
        chol == Cholesky(correlation_matrix)
    IN IF ~chol.ok THEN {NotPositiveDefinite(samples)}
       ELSE LET orderSets ==
                    IF MatrixHasNaN(samples)
                    THEN [j \in 1..n_vars |-> Perms(n_samples)]
                    ELSE LET correlated_ranks == CorrelatedRanks(samples, chol.L)
                         IN [j \in 1..n_vars |-> ArgsortSet(correlated_ranks[j])]
            IN {Reorder(samples, orders) : orders \in ChoiceSeqs(orderSets)}

\* ------------------------------------------------------------ aggregation
\* base_cost is in units of 1e-3 dollar (so it can carry a fraction of a
\* cent); a cost per iteration is base_cost * (1 + row sum), in 1e-7 dollar.
\* Results are in 1e-3 dollar: a value rounded to 2 decimals is 10 * cents.

\* mutation of RiskAdjustedCosts: the multiplier is clamped at zero
RiskAdjustedCostsClamped(b, samples) ==
    [i \in 1..Len(samples) |->
        IF HasNaN(samples[i]) THEN NaN
        ELSE LET m == 10000 + SumSeq(samples[i])
             IN b * (IF m < 0 THEN 0 ELSE m)]

\* lines 147-148: total_multipliers, risk_adjusted_costs
RiskAdjustedCosts(base_cost, transformed) ==
    [i \in 1..Len(transformed) |->
        IF HasNaN(transformed[i]) THEN NaN
        ELSE base_cost * (10000 + SumSeq(transformed[i]))]

\* round(float(x), 2) of a value x = num/den in 1e-7 dollar
Round2(num, den) == 10 * RoundHalfEven(num, den * 100000)

\* np.percentile(costs, q) for q = level * 100: linear interpolation
\* between the order statistics around the index q/100 * (n-1)
Percentile(costs, level) ==
    IF HasNaN(costs) THEN NaN
    ELSE LET n == Len(costs)
             sorted == Sort(costs)
             lo == (level * (n - 1)) \div 100
             frac == (level * (n - 1)) % 100
             hi == IF lo + 1 <= n - 1 THEN lo + 1 ELSE lo
         IN sorted[lo + 1] + ((frac * ((sorted[hi + 1] - sorted[lo + 1]) \div 100)))

\* int(level * 100) on floats: 0.29, 0.57 and 0.58 times 100 fall just
\* below the integer and truncate to 28, 56 and 57
PKey(level) == IF level \in {29, 57, 58} THEN level - 1 ELSE level

\* lines 151-154: the dict built in the order of confidence_levels; a later
\* level with the same key overwrites an earlier one
Percentiles(costs, confidence_levels) ==
    [key \in {PKey(confidence_levels[i]) : i \in DOMAIN confidence_levels} |->
        LET last == CHOOSE i \in DOMAIN confidence_levels :
                        /\ PKey(confidence_levels[i]) = key
                        /\ \A k \in DOMAIN confidence_levels :
                              PKey(confidence_levels[k]) = key => k <= i
            value == Percentile(costs, confidence_levels[last])
        IN IF value = NaN THEN NaN ELSE Round2(value, 1)]

MinOf(v) == CHOOSE x \in Range(v) : \A y \in Range(v) : x <= y
MaxOf(v) == CHOOSE x \in Range(v) : \A y \in Range(v) : x >= y

\* np.std: population standard deviation, computed on deviations in cents
StdDev(costs) ==
    LET n == Len(costs)
        total == SumSeq(costs)
        dev == [i \in 1..n |-> RoundHalfEven(n * costs[i] - total, n * 100000)]
        variance == SumSeq([i \in 1..n |-> dev[i] * dev[i]]) \div n
        r == ISqrt(variance)
    IN IF variance - r * r > r THEN r + 1 ELSE r

\* ------------------------------------------ _compute_spearman_sensitivity
\* np.corrcoef of the two rank vectors, rounded to 4 decimals (units of
\* 1e-4); NaN when a rank vector is constant (0/0) or holds NaN
Spearman(x, y) ==
    IF HasNaN(x) \/ HasNaN(y) THEN NaN
    ELSE LET n == Len(x)
             xr == Rank2(x)
             yr == Rank2(y)
             sx == SumSeq(xr)
             sy == SumSeq(yr)
             cov == n * SumSeq([i \in 1..n |-> xr[i] * yr[i]]) - sx * sy
             vx == n * SumSeq([i \in 1..n |-> xr[i] * xr[i]]) - sx * sx
             vy == n * SumSeq([i \in 1..n |-> yr[i] * yr[i]]) - sy * sy
         IN IF vx = 0 \/ vy = 0 THEN NaN
            ELSE LET den == ISqrt(vx * vy * 10000)
                     mag == RoundHalfEven(Abs(cov) * 1000000, den)
                 IN IF cov < 0 THEN -mag ELSE mag

ComputeSpearmanSensitivity(factor_samples, total_costs, factor_names) ==
    [name \in Range(factor_names) |->
        LET j == CHOOSE k \in DOMAIN factor_names : factor_names[k] = name
        IN Spearman(Col(factor_samples, j), total_costs)]

\* ------------------------------------------------------- result dicts
\* mutation of ZeroFactorResult: the statistics are rounded to 2 decimals
ZeroFactorResultRounded(b, levels, n) ==
    [base_cost |-> b,
     mean_cost |-> Round2(10000 * b, 1),
     std_dev |-> 0,
     percentiles |-> [key \in {PKey(levels[i]) : i \in DOMAIN levels} |->
                         Round2(10000 * b, 1)],
     min_cost |-> Round2(10000 * b, 1),
     max_cost |-> Round2(10000 * b, 1),
     iterations |-> n,
     risk_factors_applied |-> <<>>,
     sensitivities |-> <<>>]

\* lines 110-120: the result for an empty risk_factors mapping
ZeroFactorResult(base_cost, confidence_levels, iterations) ==
    [base_cost |-> base_cost,
     mean_cost |-> base_cost,
     std_dev |-> 0,
     percentiles |-> [key \in {PKey(confidence_levels[i]) : i \in DOMAIN confidence_levels}
                         |-> base_cost],
     min_cost |-> base_cost,
     max_cost |-> base_cost,
     iterations |-> iterations,
     risk_factors_applied |-> <<>>,
     sensitivities |-> <<>>]

\* lines 145-174: statistics of the risk-adjusted costs
AnalysisResult(base_cost, transformed, confidence_levels, factor_names, iterations) ==
    LET risk_adjusted_costs == RiskAdjustedCosts(base_cost, transformed)
        nan == HasNaN(risk_adjusted_costs)
        n == Len(risk_adjusted_costs)
    IN [base_cost |-> base_cost,
        mean_cost |-> IF nan THEN NaN ELSE Round2(SumSeq(risk_adjusted_costs), n),
        std_dev |-> IF nan THEN NaN ELSE 10 * StdDev(risk_adjusted_costs),
        percentiles |-> Percentiles(risk_adjusted_costs, confidence_levels),
        min_cost |-> IF nan THEN NaN ELSE Round2(MinOf(risk_adjusted_costs), 1),
        max_cost |-> IF nan THEN NaN ELSE Round2(MaxOf(risk_adjusted_costs), 1),
        iterations |-> iterations,
        risk_factors_applied |-> factor_names,
        sensitivities |->
            ComputeSpearmanSensitivity(transformed, risk_adjusted_costs, factor_names)]

\* ===================================================== run_analysis: state
VARIABLES
    base_cost,            \* argument, in 1e-3 dollar
    risk_factors,         \* argument: the mapping, as the sequence of its values in key order
    correlation_matrix,   \* argument: None or Some(matrix)
    confidence_levels,    \* argument: sequence of levels, in percent
    iterations,           \* self.iterations
    random_seed,          \* self.random_seed
    pc,                   \* position in run_analysis
    lhs_samples,          \* local: <<>> until the sampler has run
    transformed,          \* local: <<>> until allocated (line 127)
    j,                    \* local: index of the next column to transform
    result,               \* the returned dict, <<>> while none is returned
    error,                \* the raised exception, NoError while none is raised
    log,                  \* warning and error records written to the logger
    ic_samples,           \* _apply_iman_conover: its argument samples, <<>> before a call
    ic_result             \* _apply_iman_conover: the matrix it returned, <<>> if none

\* ------------------------------------------- state outside one run_analysis
VARIABLES
    np_random,            \* numpy's global generator: the seed it was given, draws made since
    history,              \* completed calls of run_analysis on the analyzer: arguments and outcome
    analyzers,            \* MonteCarloRiskAnalyzer objects: their attributes
    tasks,                \* generate_estimate coroutines: position, arguments, offloaded run
    sessions,             \* get_db: the sessions SessionLocal() made, with the calls made on each
    requests,             \* get_db: the uses of the dependency, one generator each
    breaker,              \* CircuitBreaker: the attributes of the object
    parses,               \* _parse_pdf_with_azure_di: the coroutines using the breaker
    now,                  \* datetime.utcnow(), in ticks
    recorded,             \* what record_success and record_failure were called for so far
    retrying,             \* azure_retry: one call of a wrapped function
    jobs,                 \* background_jobs table: the committed rows
    worker,               \* one run of a background worker: position, session, outcome
    validations           \* the requests POST /documents/{document_id}/validate

\* line 98: np.random.seed(self.random_seed)
Seeded(seed) == [seed |-> seed, draws |-> 0]

calls == <<np_random, history>>

gen == <<analyzers, tasks>>

dbv == <<sessions, requests>>

cbv == <<breaker, parses, now, recorded>>

jbv == <<jobs, worker>>

outside == <<dbv, cbv, retrying, jbv, validations>>

rest == <<calls, gen, outside>>

\* the analyzer before its first call
NoCalls ==
    /\ np_random = Seeded(0)
    /\ history = <<>>

\* no generate_estimate coroutine exists
NoTasks ==
    /\ analyzers = <<>>
    /\ tasks = <<>>

\* no background job
NoJobs ==
    /\ jobs = <<>>
    /\ worker = <<>>

\* no use of get_db, no circuit breaker, no wrapped call, no background job,
\* no request for a validation
NothingOutside ==
    /\ NoJobs
    /\ validations = <<>>
    /\ sessions = <<>>
    /\ requests = <<>>
    /\ breaker = <<>>
    /\ parses = <<>>
    /\ now = 0
    /\ recorded = <<>>
    /\ retrying = <<>>

vars == <<base_cost, risk_factors, correlation_matrix, confidence_levels, iterations,
          random_seed, pc, lhs_samples, transformed, j, result, error, log,
          ic_samples, ic_result, np_random, history, analyzers, tasks,
          sessions, requests, breaker, parses, now, recorded, retrying,
          jobs, worker, validations>>

ic == <<ic_samples, ic_result>>

inputs == <<base_cost, risk_factors, correlation_matrix, confidence_levels, iterations,
            random_seed>>

\* lines 105-106
FactorNames(factors) == [k \in DOMAIN factors |-> factors[k].name]

\* ----------------------------------------------------------- input sets
Names == <<"weather", "labor", "material", "permits">>

Tri(d, a, b, c) == RiskFactor("", d, a, b, c, None, None)
MeanStd(d, m, s) == RiskFactor("", d, None, None, None, m, s)

\* factors the sampler accepts and transforms to finite samples
SoundFactors ==
    { Tri("triangular", Some(-5), Some(0), Some(15)),
      Tri("Triangular", Some(0), Some(0), Some(10)),
      MeanStd("normal", Some(5), Some(10)),
      Tri("uniform", Some(-120), None, Some(-100)),
      MeanStd("lognormal", Some(10), Some(5)),
      Tri("pert", Some(0), Some(10), Some(20)) }

\* factors lacking a parameter their distribution requires
IncompleteFactors ==
    { Tri("triangular", None, Some(0), Some(15)),
      MeanStd("normal", Some(5), None),
      Tri("uniform", Some(0), None, None),
      MeanStd("lognormal", None, Some(5)),
      Tri("pert", Some(0), None, Some(20)) }

\* factors whose parameters are all present but inconsistent
InconsistentFactors ==
    { Tri("triangular", Some(10), Some(10), Some(5)),
      Tri("triangular", Some(0), Some(30), Some(20)),
      MeanStd("normal", Some(5), Some(0)),
      Tri("uniform", Some(10), None, Some(10)),
      MeanStd("lognormal", Some(10), Some(-5)),
      MeanStd("lognormal", Some(10), Some(0)),
      MeanStd("lognormal", Some(0), Some(5)),
      Tri("pert", Some(10), Some(10), Some(10)),
      Tri("pert", Some(0), Some(30), Some(20)) }

UnsupportedFactors == { Tri("weibull", Some(0), Some(5), Some(10)) }

AllFactors == SoundFactors \cup IncompleteFactors \cup InconsistentFactors
                \cup UnsupportedFactors

\* the mapping built by _build_risk_factors: keys are the factors' names
SeqsUpTo(S, n) == UNION {[1..k -> S] : k \in 0..n}

Named(kinds) == [k \in DOMAIN kinds |-> [kinds[k] EXCEPT !.name = Names[k]]]

FactorLists(S) == {Named(kinds) : kinds \in SeqsUpTo(S, MaxFactors)}

\* correlation matrices: d on the diagonal, r off it, entry [1][2] raised by a
Matrix(rows, cols, d, r, a) ==
    [p \in 1..rows |-> [q \in 1..cols |->
        IF p = q THEN d ELSE IF p = 1 /\ q = 2 THEN r + a ELSE r]]

SquareMatrices(n) ==
    {Matrix(n, n, d, r, a) : d \in {10000, 5000},
                              r \in {0, 5000, -6000, 10000, 15000},
                              a \in {0, 3000}}

Matrices == UNION {SquareMatrices(n) : n \in 1..(MaxFactors + 1)}
              \cup {Matrix(1, 2, 10000, 5000, 0), Matrix(2, 1, 10000, 5000, 0)}

Iterations == 2..MaxIterations

Levels == {29, 50, 80, 95}

DefaultLevels == <<50, 80, 95>>

BaseCosts == {0, 10005, 20000}

\* ------------------------------------------------------------------ Init
\* One call of run_analysis on a fresh analyzer. The calls are drawn from
\* four families, each varying some arguments over their whole set.
Call(b, f, m, c, n, s) ==
    /\ base_cost = b
    /\ risk_factors = f
    /\ correlation_matrix = m
    /\ confidence_levels = c
    /\ iterations = n
    /\ random_seed = s

\* no risk factor: every base cost, list of levels and matrix
EmptyCalls ==
    \E b \in BaseCosts, c \in SeqsUpTo(Levels, MaxLevels),
       m \in {None, Some(Matrix(1, 1, 10000, 0, 0)), Some(Matrix(2, 2, 10000, 5000, 0)),
              Some(Matrix(2, 2, 5000, 0, 3000))},
       n \in Iterations :
        Call(b, <<>>, m, c, n, 42)

\* every list of factors, sound or not, without correlation
FactorCalls ==
    \E f \in FactorLists(AllFactors), n \in Iterations :
        Call(10005, f, None, DefaultLevels, n, 42)

\* every matrix, over lists of a few factors
MatrixCalls ==
    \E f \in FactorLists({ Tri("triangular", Some(-5), Some(0), Some(15)),
                           MeanStd("normal", Some(5), Some(10)),
                           Tri("uniform", Some(0), None, None),
                           Tri("weibull", Some(0), Some(5), Some(10)) }),
       m \in Matrices, n \in Iterations :
        Call(10005, f, Some(m), DefaultLevels, n, 42)

\* a factor transformed to NaN, with a matrix that passes validation
NaNMatrixCalls ==
    \E r \in {0, 5000, 10000}, n \in Iterations :
        Call(10005,
             Named(<<Tri("triangular", Some(-5), Some(0), Some(15)),
                     Tri("uniform", Some(10), None, Some(10))>>),
             Some(Matrix(2, 2, 10000, r, 0)), DefaultLevels, n, 42)

\* sound factors: every base cost and seed, several lists of levels
SoundCalls ==
    \E b \in BaseCosts,
       f \in FactorLists({ Tri("triangular", Some(-5), Some(0), Some(15)),
                           Tri("uniform", Some(-120), None, Some(-100)),
                           MeanStd("normal", Some(5), Some(10)) }),
       c \in {DefaultLevels, <<>>, <<95, 50>>, <<29>>, <<50, 50>>},
       n \in Iterations, s \in {42, 43} :
        Call(b, f, None, c, n, s)

Init ==
    /\ EmptyCalls \/ FactorCalls \/ MatrixCalls \/ NaNMatrixCalls \/ SoundCalls
    /\ pc = "start"
    /\ lhs_samples = <<>>
    /\ transformed = <<>>
    /\ j = 0
    /\ result = <<>>
    /\ error = NoError
    /\ log = <<>>
    /\ ic_samples = <<>>
    /\ ic_result = <<>>
    /\ NoCalls
    /\ NoTasks
    /\ NothingOutside

\* --------------------------------------------------------------- actions
n_vars == Len(risk_factors)

\* lines 98-120: no risk factors - return base cost
ReturnBaseCost ==
    /\ pc = "start"
    /\ n_vars = 0
    /\ np_random' = Seeded(random_seed)
    /\ result' = ZeroFactorResult(base_cost, confidence_levels, iterations)
    /\ pc' = "done"
    /\ UNCHANGED <<inputs, lhs_samples, transformed, j, error, log, ic, history, gen, outside>>

\* lines 98-127: Latin Hypercube Sampling, and the zero matrix to fill
Sample ==
    /\ pc = "start"
    /\ n_vars # 0
    /\ lhs_samples' = LatinHypercube(random_seed, iterations, n_vars)
    /\ transformed' = [i \in 1..iterations |-> [k \in 1..n_vars |-> 0]]
    /\ j' = 1
    /\ np_random' = Seeded(random_seed)
    /\ pc' = "transform"
    /\ UNCHANGED <<inputs, result, error, log, ic, history, gen, outside>>

\* lines 128-133, one turn of the loop in which _transform_samples returns
TransformColumn ==
    /\ pc = "transform"
    /\ LET out == TransformSamples(Col(lhs_samples, j), risk_factors[j])
       IN /\ out.ok
          /\ transformed' = [i \in 1..iterations |->
                                [transformed[i] EXCEPT ![j] = out.col[i]]]
    /\ j' = j + 1
    /\ pc' = IF j = n_vars THEN "correlate" ELSE "transform"
    /\ UNCHANGED <<inputs, lhs_samples, result, error, log, ic, rest>>

\* lines 128-130, the turn of the loop in which _transform_samples raises
TransformRaises ==
    /\ pc = "transform"
    /\ LET out == TransformSamples(Col(lhs_samples, j), risk_factors[j])
       IN /\ ~out.ok
          /\ error' = out.err
    /\ pc' = "error"
    /\ UNCHANGED <<inputs, lhs_samples, transformed, j, result, log, ic, rest>>

\* line 136: no correlation matrix
SkipCorrelation ==
    /\ pc = "correlate"
    /\ IsNone(correlation_matrix)
    /\ pc' = "aggregate"
    /\ UNCHANGED <<inputs, lhs_samples, transformed, j, result, error, log, ic, rest>>

\* lines 136-142: the matrix passes _validate_correlation_matrix
ValidateAccepts ==
    /\ pc = "correlate"
    /\ ~IsNone(correlation_matrix)
    /\ ValidateCorrelationMatrix(Val(correlation_matrix), n_vars) = NoError
    /\ log' = Append(log, <<"warning", "Iman-Conover correlation applied">>)
    /\ pc' = "induce"
    /\ UNCHANGED <<inputs, lhs_samples, transformed, j, result, error, ic, rest>>

\* lines 136-138: _validate_correlation_matrix raises
ValidateRaises ==
    /\ pc = "correlate"
    /\ ~IsNone(correlation_matrix)
    /\ ValidateCorrelationMatrix(Val(correlation_matrix), n_vars) # NoError
    /\ error' = ValidateCorrelationMatrix(Val(correlation_matrix), n_vars)
    /\ pc' = "error"
    /\ UNCHANGED <<inputs, lhs_samples, transformed, j, result, log, ic, rest>>

\* line 143: transformed = self._apply_iman_conover(transformed, matrix)
InduceCorrelation ==
    /\ pc = "induce"
    /\ ic_samples' = transformed
    /\ \E correlated \in ApplyImanConover(transformed, Val(correlation_matrix)) :
          /\ ic_result' = correlated
          /\ transformed' = correlated
    /\ log' = IF Cholesky(Val(correlation_matrix)).ok THEN log
              ELSE Append(log, <<"error", "Correlation matrix is not positive definite">>)
    /\ pc' = "aggregate"
    /\ UNCHANGED <<inputs, lhs_samples, j, result, error, rest>>

\* lines 145-174: statistics, sensitivities and the returned dict
Aggregate ==
    /\ pc = "aggregate"
    /\ result' = AnalysisResult(base_cost, transformed, confidence_levels,
                                FactorNames(risk_factors), iterations)
    /\ pc' = "done"
    /\ UNCHANGED <<inputs, lhs_samples, transformed, j, error, log, ic, rest>>

Next ==
    \/ ReturnBaseCost
    \/ Sample
    \/ TransformColumn
    \/ TransformRaises
    \/ SkipCorrelation
    \/ ValidateAccepts
    \/ ValidateRaises
    \/ InduceCorrelation
    \/ Aggregate

Spec == Init /\ [][Next]_vars

\* ============================ _apply_iman_conover taken as a function
\* lines 343-351: the shapes of the two arguments must agree
ImanConoverShapeOk(samples, matrix) == Shape(matrix) = <<Len(samples[1]), Len(samples[1])>>

\* columns of n sample values: distinct in several orders, tied in pairs, constant
ICColumns(n) ==
    {NthPerm([i \in 1..n |-> 100 * i], k) : k \in {0, 1, 3, Factorial(n) - 1}}
      \cup {[i \in 1..n |-> 10 * ((i + 1) \div 2)], [i \in 1..n |-> 7]}

ICSampleMatrices ==
    UNION {{[i \in 1..n |-> [k \in 1..d |-> cols[k][i]]] : cols \in [1..d -> ICColumns(n)]} :
              n \in Iterations, d \in 1..MaxFactors}

\* what _transform_samples hands over for a factor scipy could not sample:
\* a first column of NaN next to a column of numbers
ICNaNMatrices ==
    UNION {{[i \in 1..n |-> <<NaN, col[i]>>] : col \in ICColumns(n)} : n \in Iterations}

InitIC ==
    /\ ic_samples \in ICSampleMatrices \cup ICNaNMatrices
    /\ \E m \in Matrices : correlation_matrix = Some(m)
    /\ ic_result = <<>>
    /\ pc = "ic_call"
    /\ error = NoError
    /\ log = <<>>
    /\ base_cost = 0
    /\ risk_factors = <<>>
    /\ confidence_levels = <<>>
    /\ iterations = Len(ic_samples)
    /\ random_seed = 42
    /\ lhs_samples = <<>>
    /\ transformed = <<>>
    /\ j = 0
    /\ result = <<>>
    /\ NoCalls
    /\ NoTasks
    /\ NothingOutside

\* lines 353-384: a call that returns
ImanConoverReturns ==
    /\ pc = "ic_call"
    /\ ImanConoverShapeOk(ic_samples, Val(correlation_matrix))
    /\ ic_result' \in ApplyImanConover(ic_samples, Val(correlation_matrix))
    /\ log' = IF Cholesky(Val(correlation_matrix)).ok THEN log
              ELSE Append(log, <<"error", "Correlation matrix is not positive definite">>)
    /\ pc' = "ic_done"
    /\ UNCHANGED <<inputs, lhs_samples, transformed, j, result, error, ic_samples, rest>>

\* lines 346-351: a call that raises
ImanConoverRaises ==
    /\ pc = "ic_call"
    /\ ~ImanConoverShapeOk(ic_samples, Val(correlation_matrix))
    /\ error' = ValueError("Correlation matrix shape doesn't match variables", "")
    /\ pc' = "ic_error"
    /\ UNCHANGED <<inputs, lhs_samples, transformed, j, result, log, ic, rest>>

NextIC == ImanConoverReturns \/ ImanConoverRaises

SpecIC == InitIC /\ [][NextIC]_vars

\* =================================== successive calls on one analyzer
\* The outcomes run_analysis can have on given arguments and attributes:
\* the returned dict or the raised exception. self.iterations is read for
\* the sampler (line 124) and again for the returned dict (lines 118, 170).
RunOutcomes(b, factors, matrix, levels, n_drawn, n_reported, seed) ==
    IF Len(factors) = 0
    THEN {[result |-> ZeroFactorResult(b, levels, n_reported), error |-> NoError]}
    ELSE LET lhs == LatinHypercube(seed, n_drawn, Len(factors))
             out == [k \in DOMAIN factors |-> TransformSamples(Col(lhs, k), factors[k])]
             bad == {k \in DOMAIN factors : ~out[k].ok}
             columns == [i \in 1..n_drawn |-> [k \in DOMAIN factors |-> out[k].col[i]]]
             done(t) == [result |-> AnalysisResult(b, t, levels, FactorNames(factors),
                                                   n_reported),
                         error |-> NoError]
             failed(e) == [result |-> <<>>, error |-> e]
         IN IF bad # {}
            THEN {failed(out[CHOOSE k \in bad : \A q \in bad : k <= q].err)}
            ELSE IF IsNone(matrix) THEN {done(columns)}
            ELSE IF ValidateCorrelationMatrix(Val(matrix), Len(factors)) # NoError
            THEN {failed(ValidateCorrelationMatrix(Val(matrix), Len(factors)))}
            ELSE {done(t) : t \in ApplyImanConover(columns, Val(matrix))}

\* mutation of SamplerSeed: one generator continued from call to call
SamplerSeedContinued(seed) == seed + Len(history)

\* line 123: qmc.LatinHypercube(d=n_vars, seed=self.random_seed)
SamplerSeed(seed) == seed

\* A call as the build executes it: np.sort and np.argsort are functions of
\* their input, so of the orders an unstable sort may give equal keys the
\* build gives one, the same at every call.
RunAnalysis(b, factors, matrix, levels) ==
    CHOOSE o \in RunOutcomes(b, factors, matrix, levels, iterations, iterations,
                             SamplerSeed(random_seed)) : TRUE

\* the arguments of the calls: risk factors and correlation matrix
CallArguments ==
    { <<<<>>, None>>,
      <<Named(<<Tri("triangular", Some(-5), Some(0), Some(15)),
                MeanStd("normal", Some(5), Some(10))>>), None>>,
      <<Named(<<Tri("triangular", Some(-5), Some(0), Some(15)),
                MeanStd("normal", Some(5), Some(10))>>),
        Some(Matrix(2, 2, 10000, 5000, 0))>>,
      <<Named(<<Tri("triangular", Some(-5), Some(0), Some(15)),
                MeanStd("normal", Some(5), None)>>), None>> }

\* the iteration counts the caller sets
CallIterations == {2, MaxIterations}

\* no call of run_analysis is in progress
NoRun ==
    /\ base_cost = 0
    /\ risk_factors = <<>>
    /\ correlation_matrix = None
    /\ confidence_levels = <<>>
    /\ pc = "idle"
    /\ lhs_samples = <<>>
    /\ transformed = <<>>
    /\ j = 0
    /\ result = <<>>
    /\ error = NoError
    /\ log = <<>>
    /\ ic_samples = <<>>
    /\ ic_result = <<>>

InitCalls ==
    /\ NoCalls
    /\ NoTasks
    /\ NothingOutside
    /\ NoRun
    /\ iterations \in CallIterations
    /\ random_seed \in {42, 43}

run == <<base_cost, risk_factors, correlation_matrix, confidence_levels, pc, lhs_samples,
         transformed, j, result, error, log, ic>>

\* one whole call of run_analysis, from line 98 to its return or raise
CallRunAnalysis ==
    /\ Len(history) < MaxCalls
    /\ \E a \in CallArguments :
          history' = Append(history,
              [args |-> <<10005, a[1], a[2], DefaultLevels, iterations, random_seed>>,
               outcome |-> RunAnalysis(10005, a[1], a[2], DefaultLevels)])
    /\ np_random' = Seeded(random_seed)
    /\ UNCHANGED <<run, iterations, random_seed, gen, outside>>

\* estimate_generator.py line 232: the caller sets the attribute between calls
SetIterations ==
    /\ Len(history) < MaxCalls
    /\ \E n \in CallIterations : n # iterations /\ iterations' = n
    /\ UNCHANGED <<run, random_seed, calls, gen, outside>>

\* other code of the process draws from numpy's global generator
DrawGlobalRandom ==
    /\ Len(history) < MaxCalls
    /\ np_random.draws = 0
    /\ np_random' = [np_random EXCEPT !.draws = 1]
    /\ UNCHANGED <<run, iterations, random_seed, history, gen, outside>>

NextCalls == CallRunAnalysis \/ SetIterations \/ DrawGlobalRandom

SpecCalls == InitCalls /\ [][NextCalls]_vars

\* ===================================== generate_estimate, steps 6 to 7
\* Coroutines run on the thread of the event loop, one at a time, each
\* until its next await; asyncio.to_thread runs the call on a thread of
\* the default executor while the loop goes on with other coroutines.
MainThread == "MainThread"

\* mutation of ToThread: the call is made on the calling thread
ToThreadInline(t) == MainThread

\* asyncio.to_thread: the thread of the executor that runs the call of task t
ToThread(t) == <<"asyncio", t>>

Tasks == 1..MaxTasks

\* the arguments of a generate_estimate call that reach run_analysis
TaskArguments ==
    LET call(f, n) == [base_cost |-> 10005, risk_factors |-> f, confidence_level |-> 80,
                       monte_carlo_iterations |-> n]
    IN { call(<<>>, 2),
         call(Named(<<Tri("triangular", Some(-5), Some(0), Some(15))>>), 2),
         call(Named(<<Tri("triangular", Some(-5), Some(0), Some(15))>>), MaxIterations),
         call(Named(<<MeanStd("normal", Some(5), None)>>), MaxIterations) }

NotStarted == [pc |-> "none", thread |-> "", n_logged |-> 0, n_drawn |-> 0,
               outcome |-> <<>>]

\* lines 236-238: the keyword arguments handed to run_analysis
Levels3(a) == <<50, a.confidence_level, 95>>

InitTasks ==
    /\ NoCalls
    /\ NoRun
    /\ NothingOutside
    /\ iterations = 0
    /\ random_seed = 0
    /\ \E shared \in BOOLEAN :
          /\ analyzers = [a \in (IF shared THEN {1} ELSE Tasks) |->
                             [iterations |-> 10000, random_seed |-> 42]]
          /\ \E args \in [Tasks -> TaskArguments] :
                tasks = [t \in Tasks |->
                            [pc |-> "step6", args |-> args[t],
                             analyzer |-> IF shared THEN 1 ELSE t,
                             run |-> NotStarted, risk_results |-> <<>>,
                             raised |-> NoError]]

idle == <<run, iterations, random_seed, history, outside>>

\* estimate_generator.py lines 228-239: the attribute is set and the call
\* handed to a thread; the coroutine is suspended at the await
SetIterationsAndOffload(t) ==
    /\ tasks[t].pc = "step6"
    /\ analyzers' = [analyzers EXCEPT ![tasks[t].analyzer].iterations =
                        tasks[t].args.monte_carlo_iterations]
    /\ tasks' = [tasks EXCEPT ![t].pc = "await",
                              ![t].run.pc = "queued",
                              ![t].run.thread = ToThread(t)]
    /\ UNCHANGED <<idle, np_random>>

\* risk_analysis.py lines 98-106, on the thread of the call
RunStarts(t) ==
    /\ tasks[t].run.pc = "queued"
    /\ np_random' = Seeded(analyzers[tasks[t].analyzer].random_seed)
    /\ tasks' = [tasks EXCEPT ![t].run.pc = "started",
                              ![t].run.n_logged = analyzers[tasks[t].analyzer].iterations]
    /\ UNCHANGED <<idle, analyzers>>

\* lines 108-120: no risk factors, self.iterations read at line 118
RunReturnsBaseCost(t) ==
    /\ tasks[t].run.pc = "started"
    /\ Len(tasks[t].args.risk_factors) = 0
    /\ tasks' = [tasks EXCEPT
          ![t].run.pc = "returned",
          ![t].run.outcome =
              CHOOSE o \in RunOutcomes(tasks[t].args.base_cost, <<>>, None,
                                       Levels3(tasks[t].args), 0,
                                       analyzers[tasks[t].analyzer].iterations,
                                       analyzers[tasks[t].analyzer].random_seed) : TRUE]
    /\ UNCHANGED <<idle, analyzers, np_random>>

\* lines 122-124: self.iterations read for the sampler
RunDraws(t) ==
    /\ tasks[t].run.pc = "started"
    /\ Len(tasks[t].args.risk_factors) # 0
    /\ tasks' = [tasks EXCEPT ![t].run.pc = "sampled",
                              ![t].run.n_drawn = analyzers[tasks[t].analyzer].iterations]
    /\ UNCHANGED <<idle, analyzers, np_random>>

\* lines 127-174: self.iterations read again at line 170 for the dict
RunReturns(t) ==
    /\ tasks[t].run.pc = "sampled"
    /\ tasks' = [tasks EXCEPT
          ![t].run.pc = "returned",
          ![t].run.outcome =
              CHOOSE o \in RunOutcomes(tasks[t].args.base_cost, tasks[t].args.risk_factors,
                                       None, Levels3(tasks[t].args), tasks[t].run.n_drawn,
                                       analyzers[tasks[t].analyzer].iterations,
                                       analyzers[tasks[t].analyzer].random_seed) : TRUE]
    /\ UNCHANGED <<idle, analyzers, np_random>>

\* estimate_generator.py lines 233-243: the await ends with the value the
\* call returned, or with the exception it raised
Resume(t) ==
    /\ tasks[t].pc = "await"
    /\ tasks[t].run.pc = "returned"
    /\ tasks' = [tasks EXCEPT
          ![t].pc = IF tasks[t].run.outcome.error = NoError THEN "step8" ELSE "raised",
          ![t].risk_results = tasks[t].run.outcome.result,
          ![t].raised = tasks[t].run.outcome.error]
    /\ UNCHANGED <<idle, analyzers, np_random>>

NextTasks ==
    \E t \in Tasks :
        \/ SetIterationsAndOffload(t)
        \/ RunStarts(t)
        \/ RunReturnsBaseCost(t)
        \/ RunDraws(t)
        \/ RunReturns(t)
        \/ Resume(t)

SpecTasks == InitTasks /\ [][NextTasks]_vars

\* ============================================================== get_db
\* the engine takes no part in what follows
engine == <<run, iterations, random_seed, calls, gen>>

NoEngine ==
    /\ NoRun
    /\ NoCalls
    /\ NoTasks
    /\ iterations = 0
    /\ random_seed = 0

\* An exception object: its class, whether the class derives from Exception
\* (asyncio.CancelledError, KeyboardInterrupt and GeneratorExit do not), and
\* the call that raised it.
Exc(name, is_exception, origin) ==
    [name |-> name, is_exception |-> is_exception, origin |-> origin]

NoExc == Exc("", FALSE, "")

\* what the code using the session may raise into the generator
BodyExceptions ==
    { Exc("HTTPException", TRUE, "body"),
      Exc("BusinessRuleViolation", TRUE, "body"),
      Exc("CancelledError", FALSE, "body") }

\* mutation of Caught: the handler catches every BaseException
CaughtBare(exc) == TRUE

\* dependencies.py line 94: except Exception as exc
Caught(exc) == exc.is_exception

Requests == 1..MaxRequests

InitDb ==
    /\ NoEngine
    /\ NoJobs
    /\ validations = <<>>
    /\ sessions = <<>>
    /\ requests = [r \in Requests |->
                      [pc |-> "call", db |-> 0, body |-> "", thrown |-> NoExc,
                       exc |-> NoExc, propagated |-> NoExc]]
    /\ breaker = <<>>
    /\ parses = <<>>
    /\ now = 0
    /\ recorded = <<>>
    /\ retrying = <<>>

nodb == <<engine, cbv, retrying, jbv, validations>>

\* the call made on the session of request r is recorded on the session
Called(r, method) ==
    [sessions EXCEPT ![requests[r].db].calls = Append(@, method)]

\* line 89: db = SessionLocal(), up to the yield of line 91
OpenSession(r) ==
    /\ requests[r].pc = "call"
    /\ sessions' = Append(sessions, [calls |-> <<>>])
    /\ requests' = [requests EXCEPT ![r].pc = "yield", ![r].db = Len(sessions) + 1]
    /\ UNCHANGED nodb

\* the code using the session ends and the generator is resumed (line 91)
BodyFinishes(r) ==
    /\ requests[r].pc = "yield"
    /\ requests' = [requests EXCEPT ![r].pc = "commit", ![r].body = "finished"]
    /\ UNCHANGED <<nodb, sessions>>

\* the code using the session raises and the exception is thrown into the
\* generator at the yield: to the handler of line 94 if it catches it, else
\* to the finally clause
BodyRaises(r) ==
    /\ requests[r].pc = "yield"
    /\ \E e \in BodyExceptions :
          requests' = [requests EXCEPT ![r].pc = IF Caught(e) THEN "except" ELSE "finally",
                                       ![r].body = "raised",
                                       ![r].thrown = e,
                                       ![r].exc = e]
    /\ UNCHANGED <<nodb, sessions>>

\* line 93: db.commit() returns
CommitReturns(r) ==
    /\ requests[r].pc = "commit"
    /\ sessions' = Called(r, "commit")
    /\ requests' = [requests EXCEPT ![r].pc = "finally"]
    /\ UNCHANGED nodb

\* line 93: db.commit() raises (a constraint is violated, the connection is lost)
CommitRaises(r) ==
    /\ requests[r].pc = "commit"
    /\ sessions' = Called(r, "commit")
    /\ \E e \in {Exc("IntegrityError", TRUE, "commit")} :
          requests' = [requests EXCEPT ![r].pc = IF Caught(e) THEN "except" ELSE "finally",
                                       ![r].exc = e]
    /\ UNCHANGED nodb

\* lines 94-97: the error is logged, db.rollback() returns, the exception is raised again
RollbackReturns(r) ==
    /\ requests[r].pc = "except"
    /\ sessions' = Called(r, "rollback")
    /\ requests' = [requests EXCEPT ![r].pc = "finally"]
    /\ UNCHANGED nodb

\* line 96: db.rollback() raises, and its exception replaces the handled one
RollbackRaises(r) ==
    /\ requests[r].pc = "except"
    /\ sessions' = Called(r, "rollback")
    /\ requests' = [requests EXCEPT ![r].pc = "finally",
                                    ![r].exc = Exc("OperationalError", TRUE, "rollback")]
    /\ UNCHANGED nodb

\* lines 98-99: db.close(), then the generator ends or the exception leaves it
CloseSession(r) ==
    /\ requests[r].pc = "finally"
    /\ sessions' = Called(r, "close")
    /\ requests' = [requests EXCEPT ![r].pc = "done", ![r].propagated = requests[r].exc]
    /\ UNCHANGED nodb

NextDb ==
    \E r \in Requests :
        \/ OpenSession(r)
        \/ BodyFinishes(r)
        \/ BodyRaises(r)
        \/ CommitReturns(r)
        \/ CommitRaises(r)
        \/ RollbackReturns(r)
        \/ RollbackRaises(r)
        \/ CloseSession(r)

SpecDb == InitDb /\ [][NextDb]_vars

\* ====================================================== CircuitBreaker
\* document_parser.py. Every method body runs under self._lock and holds
\* no await, so on the event loop each call is one step.
CLOSED == "closed"
OPEN == "open"
HALF_OPEN == "half_open"

\* lines 54-62, with the two thresholds read from config
NewCircuitBreaker(threshold, timeout_seconds) ==
    [state |-> CLOSED,
     failure_count |-> 0,
     last_failure_time |-> None,
     threshold |-> threshold,
     timeout_seconds |-> timeout_seconds,
     half_open_probe_active |-> FALSE]

\* lines 64-73
RecordSuccess(cb) ==
    LET closed == IF cb.state = HALF_OPEN
                  THEN [cb EXCEPT !.state = CLOSED, !.half_open_probe_active = FALSE]
                  ELSE cb
    IN [closed EXCEPT !.failure_count = 0, !.last_failure_time = None]

\* lines 75-93
RecordFailure(cb, utcnow) ==
    LET counted == [cb EXCEPT !.failure_count = @ + 1, !.last_failure_time = Some(utcnow)]
    IN IF counted.state = HALF_OPEN
       THEN [counted EXCEPT !.state = OPEN, !.half_open_probe_active = FALSE]
       ELSE IF counted.failure_count >= counted.threshold /\ counted.state = CLOSED
       THEN [counted EXCEPT !.state = OPEN]
       ELSE counted

\* mutation of EnterHalfOpen: the probe flag is left as it was
EnterHalfOpenUnflagged(cb) == [cb EXCEPT !.state = HALF_OPEN]

\* lines 118-119: OPEN to HALF_OPEN, the caller being the probe
EnterHalfOpen(cb) == [cb EXCEPT !.state = HALF_OPEN, !.half_open_probe_active = TRUE]

\* lines 95-146: the breaker after the call, and the exception raised if any
CanProceed(cb, utcnow) ==
    LET proceed(c) == [breaker |-> c, raised |-> NoError]
        reject(e) == [breaker |-> cb, raised |-> e]
    IN IF cb.state = CLOSED THEN proceed(cb)
       ELSE IF cb.state = OPEN
       THEN IF ~IsNone(cb.last_failure_time)
                 /\ utcnow - Val(cb.last_failure_time) >= cb.timeout_seconds
            THEN proceed(EnterHalfOpen(cb))
            ELSE IF IsNone(cb.last_failure_time)
            THEN reject(Error("TypeError", "", "unsupported operand type(s) for -", ""))
            ELSE reject(BusinessRuleViolation("CIRCUIT_BREAKER_OPEN",
                                              "Azure Document Intelligence circuit breaker is OPEN"))
       ELSE IF cb.half_open_probe_active
       THEN reject(BusinessRuleViolation("CIRCUIT_BREAKER_PROBE_ACTIVE",
                                         "Circuit breaker probe in progress"))
       ELSE proceed([cb EXCEPT !.half_open_probe_active = TRUE])

Parses == 1..MaxParses

\* the failures counted are capped to keep the counter finite
MaxFailures == MaxThreshold + MaxParses + 1

InitBreaker ==
    /\ NoEngine
    /\ NoJobs
    /\ validations = <<>>
    /\ sessions = <<>>
    /\ requests = <<>>
    /\ retrying = <<>>
    /\ \E threshold \in 1..MaxThreshold : breaker = NewCircuitBreaker(threshold, 2)
    /\ parses = [p \in Parses |-> [pc |-> "start", last |-> ""]]
    /\ now = 0
    /\ recorded = [since_success |-> 0, opened_by |-> ""]

nocb == <<engine, dbv, retrying, jbv, validations>>

\* what is remembered of the calls of record_success and record_failure:
\* the failures since the last success, and what opened the breaker
Remember(before, after, failure) ==
    [since_success |-> IF failure THEN recorded.since_success + 1 ELSE 0,
     opened_by |-> IF after.state # OPEN THEN ""
                   ELSE IF before.state = HALF_OPEN THEN "probe"
                   ELSE IF before.state = CLOSED THEN "threshold"
                   ELSE recorded.opened_by]

\* lines 304-305: can_proceed returns
ParseAdmitted(p) ==
    /\ parses[p].pc = "start"
    /\ CanProceed(breaker, now).raised = NoError
    /\ breaker' = CanProceed(breaker, now).breaker
    /\ parses' = [parses EXCEPT ![p] = [pc |-> "analyze", last |-> "admitted"]]
    /\ UNCHANGED <<nocb, now, recorded>>

\* lines 304-305: can_proceed raises and the parse ends
ParseRejected(p) ==
    /\ parses[p].pc = "start"
    /\ CanProceed(breaker, now).raised # NoError
    /\ parses' = [parses EXCEPT ![p] =
                     [pc |-> "start",
                      last |-> IF CanProceed(breaker, now).raised.type = "TypeError"
                               THEN "TypeError"
                               ELSE CanProceed(breaker, now).raised.code]]
    /\ UNCHANGED <<nocb, breaker, now, recorded>>

\* lines 307-338: the analysis returns and record_success is awaited
AnalysisSucceeds(p) ==
    /\ parses[p].pc = "analyze"
    /\ breaker' = RecordSuccess(breaker)
    /\ recorded' = Remember(breaker, breaker', FALSE)
    /\ parses' = [parses EXCEPT ![p] = [pc |-> "start", last |-> "success"]]
    /\ UNCHANGED <<nocb, now>>

\* lines 340-352: HttpResponseError or TimeoutError, record_failure is awaited
AnalysisFails(p) ==
    /\ parses[p].pc = "analyze"
    /\ breaker.failure_count < MaxFailures
    /\ breaker' = RecordFailure(breaker, now)
    /\ recorded' = Remember(breaker, breaker', TRUE)
    /\ parses' = [parses EXCEPT ![p] = [pc |-> "start", last |-> "failure"]]
    /\ UNCHANGED <<nocb, now>>

\* lines 307-338: any other exception (a cancellation, an error while the
\* content is extracted) leaves the function with nothing recorded
AnalysisRaisesOther(p) ==
    /\ parses[p].pc = "analyze"
    /\ parses' = [parses EXCEPT ![p] = [pc |-> "start", last |-> "other"]]
    /\ UNCHANGED <<nocb, breaker, now, recorded>>

\* time passes
Tick ==
    /\ now < MaxTime
    /\ now' = now + 1
    /\ UNCHANGED <<nocb, breaker, parses, recorded>>

NextBreaker ==
    \/ \E p \in Parses :
          \/ ParseAdmitted(p)
          \/ ParseRejected(p)
          \/ AnalysisSucceeds(p)
          \/ AnalysisFails(p)
          \/ AnalysisRaisesOther(p)
    \/ Tick

SpecBreaker == InitBreaker /\ [][NextBreaker]_vars

\* ========================================================= azure_retry
\* utils/retry.py. The classes of azure.core.exceptions imported at lines
\* 11-20, each with its base class: the four resource and authentication
\* errors derive from HttpResponseError.
BaseClass ==
    [ServiceRequestError |-> "AzureError",
     ServiceRequestTimeoutError |-> "ServiceRequestError",
     ServiceResponseError |-> "AzureError",
     HttpResponseError |-> "AzureError",
     ClientAuthenticationError |-> "HttpResponseError",
     ResourceNotFoundError |-> "HttpResponseError",
     ResourceExistsError |-> "HttpResponseError",
     ResourceModifiedError |-> "HttpResponseError",
     AzureError |-> "Exception",
     ValueError |-> "Exception",
     Exception |-> "BaseException"]

\* the class and its bases
RECURSIVE Mro(_)
Mro(class) == IF class \in DOMAIN BaseClass THEN {class} \cup Mro(BaseClass[class]) ELSE {class}

\* isinstance(e, classes) for an exception e of the given class
IsInstance(class, classes) == Mro(class) \cap classes # {}

\* lines 27-32
TRANSIENT_ERRORS ==
    {"ServiceRequestError", "ServiceRequestTimeoutError", "ServiceResponseError",
     "HttpResponseError"}

\* lines 36-41
FATAL_ERRORS ==
    {"ClientAuthenticationError", "ResourceNotFoundError", "ResourceExistsError",
     "ResourceModifiedError"}

\* lines 72 and 97: stop=stop_after_attempt(3)
StopAfterAttempt == 3

\* mutation of RetryIfExceptionType: every exception is retried
RetryIfException(class) == TRUE

\* lines 74 and 99: retry=retry_if_exception_type(TRANSIENT_ERRORS)
RetryIfExceptionType(class) == IsInstance(class, TRANSIENT_ERRORS)

\* what one attempt of the wrapped function does
Returns(value) == [raises |-> "", value |-> value]
Raises(class) == [raises |-> class, value |-> ""]

RaisedClasses == TRANSIENT_ERRORS \cup FATAL_ERRORS \cup {"ValueError"}

InitRetry ==
    /\ NoEngine
    /\ NoJobs
    /\ validations = <<>>
    /\ sessions = <<>>
    /\ requests = <<>>
    /\ breaker = <<>>
    /\ parses = <<>>
    /\ now = 0
    /\ recorded = <<>>
    /\ \E coroutine \in BOOLEAN :
          retrying = [pc |-> "call", coroutine |-> coroutine, attempt_number |-> 1,
                      outcomes |-> <<>>, returned |-> None, raised |-> "", log |-> <<>>]

nort == <<engine, dbv, cbv, jbv, validations>>

\* lines 84 and 109: the wrapped function returns and so does the call
AttemptReturns ==
    /\ retrying.pc = "call"
    /\ \E value \in {"blob", "ok"} :
          retrying' = [retrying EXCEPT !.pc = "returned",
                                       !.outcomes = Append(@, Returns(value)),
                                       !.returned = Some(value)]
    /\ UNCHANGED nort

\* the log after the wrapper's handler of lines 85-90 and 110-115
LoggedFatal(class) ==
    IF IsInstance(class, FATAL_ERRORS)
    THEN Append(retrying.log, <<"error", "Fatal error. Not retrying.", class>>)
    ELSE retrying.log

\* the wrapped function raises, tenacity finds the exception retryable and
\* the attempts not exhausted: before_sleep logs, the call sleeps
AttemptRaisesAndSleeps ==
    /\ retrying.pc = "call"
    /\ \E class \in RaisedClasses :
          /\ RetryIfExceptionType(class)
          /\ retrying.attempt_number < StopAfterAttempt
          /\ retrying' = [retrying EXCEPT
                !.pc = "sleep",
                !.outcomes = Append(@, Raises(class)),
                !.log = Append(LoggedFatal(class),
                               <<"warning", "Retrying", retrying.attempt_number>>)]
    /\ UNCHANGED nort

\* the wrapped function raises and tenacity stops: the exception is not
\* retryable or this was the last attempt; reraise=True raises it as it is
AttemptRaisesAndStops ==
    /\ retrying.pc = "call"
    /\ \E class \in RaisedClasses :
          /\ ~(RetryIfExceptionType(class) /\ retrying.attempt_number < StopAfterAttempt)
          /\ retrying' = [retrying EXCEPT
                !.pc = "raised",
                !.outcomes = Append(@, Raises(class)),
                !.raised = class,
                !.log = LoggedFatal(class)]
    /\ UNCHANGED nort

\* line 73: the wait of wait_exponential is over, the next attempt begins
NextAttempt ==
    /\ retrying.pc = "sleep"
    /\ retrying' = [retrying EXCEPT !.pc = "call", !.attempt_number = @ + 1]
    /\ UNCHANGED nort

NextRetry ==
    \/ AttemptReturns
    \/ AttemptRaisesAndSleeps
    \/ AttemptRaisesAndStops
    \/ NextAttempt

SpecRetry == InitRetry /\ [][NextRetry]_vars

\* ======================================================= JobRepository
MaxJobs == 2

JobIds == 1..MaxJobs

\* alembic/versions/20250115_add_background_jobs.py lines 19-40: the columns
\* of a row that the repository writes; create_job, lines 31-37
NewJob(job_type) ==
    [job_type |-> job_type, status |-> "pending", progress_percent |-> None,
     current_step |-> None, started_at |-> None, completed_at |-> None,
     result_data |-> None, error_message |-> None, estimate_id |-> None]

\* job_repository.py lines 42-62; table is what the session holds of the rows
UpdateProgress(table, job_id, progress_percent, current_step, utcnow) ==
    IF job_id \notin DOMAIN table
    THEN table
    ELSE [table EXCEPT ![job_id] =
            [@ EXCEPT !.progress_percent = Some(progress_percent),
                      !.current_step = Some(current_step),
                      !.status = IF @ = "pending" THEN "running" ELSE @,
                      !.started_at = IF table[job_id].status = "pending"
                                     THEN Some(utcnow) ELSE @]]

\* lines 64-84; estimate_id is None or Some(id)
MarkCompleted(table, job_id, result_data, estimate_id, utcnow) ==
    IF job_id \notin DOMAIN table
    THEN table
    ELSE [table EXCEPT ![job_id] =
            [@ EXCEPT !.status = "completed",
                      !.completed_at = Some(utcnow),
                      !.result_data = Some(result_data),
                      !.estimate_id = IF IsNone(estimate_id) THEN @ ELSE estimate_id]]

\* lines 86-97
MarkFailed(table, job_id, error_message, utcnow) ==
    IF job_id \notin DOMAIN table
    THEN table
    ELSE [table EXCEPT ![job_id] =
            [@ EXCEPT !.status = "failed",
                      !.error_message = Some(error_message),
                      !.completed_at = Some(utcnow)]]

JobTypes == {"document_validation", "estimate_generation"}

\* the repository used on one session, in any order; jobs is what that
\* session holds
InitRepo ==
    /\ NoEngine
    /\ sessions = <<>>
    /\ requests = <<>>
    /\ breaker = <<>>
    /\ parses = <<>>
    /\ now = 0
    /\ recorded = <<>>
    /\ retrying = <<>>
    /\ jobs = <<>>
    /\ worker = <<>>
    /\ validations = <<>>

norepo == <<engine, dbv, cbv, retrying, worker, validations>>

\* lines 21-40
CreateJob ==
    /\ Len(jobs) < MaxJobs
    /\ \E job_type \in JobTypes : jobs' = Append(jobs, NewJob(job_type))
    /\ UNCHANGED norepo

CallUpdateProgress ==
    /\ \E job_id \in JobIds, step \in {<<10, "Loading">>, <<90, "Finishing">>} :
          jobs' = UpdateProgress(jobs, job_id, step[1], step[2], now)
    /\ UNCHANGED norepo

CallMarkCompleted ==
    /\ \E job_id \in JobIds, estimate_id \in {None, Some(1)} :
          jobs' = MarkCompleted(jobs, job_id, "result", estimate_id, now)
    /\ UNCHANGED norepo

CallMarkFailed ==
    /\ \E job_id \in JobIds : jobs' = MarkFailed(jobs, job_id, "error", now)
    /\ UNCHANGED norepo

NextRepo == CreateJob \/ CallUpdateProgress \/ CallMarkCompleted \/ CallMarkFailed

SpecRepo == InitRepo /\ [][NextRepo]_vars

\* ===================================================== background workers
\* One run of process_document_validation or process_estimate_generation
\* for the job with id 1. jobs is the committed table; worker.table is what
\* the worker's session holds (flushed, not yet committed). The session is
\*   "active"   : usable,
\*   "inactive" : a flush or a commit failed and rollback() was not called;
\*                every further use raises (PendingRollbackError),
\*   "closed"   : after db.close().
JobId == 1

\* mutation of CheckUserAccess: every user is let through
CheckUserAccessOpen(access_rows) == [raised |-> "", value |-> TRUE]

\* project_repository.py lines 107-112: scalar_one_or_none() over the
\* ProjectAccess rows of the user and project (one row per role)
CheckUserAccess(access_rows) ==
    IF access_rows > 1
    THEN [raised |-> "MultipleResultsFound", value |-> FALSE]
    ELSE [raised |-> "", value |-> access_rows = 1]

\* what a run is given: the kind of worker and what the database holds
WorkerArguments ==
    { [kind |-> "document_validation", found |-> found, access_rows |-> a] :
        found \in {{"document"}, {}}, a \in 0..1 }
    \cup
    { [kind |-> "estimate_generation", found |-> found, access_rows |-> a] :
        found \in {{"project", "user"}, {"project"}, {"user"}}, a \in 0..2 }

InitJobs ==
    /\ NoEngine
    /\ sessions = <<>>
    /\ requests = <<>>
    /\ breaker = <<>>
    /\ parses = <<>>
    /\ now = 0
    /\ recorded = <<>>
    /\ retrying = <<>>
    /\ validations = <<>>
    /\ \E args \in WorkerArguments :
          /\ jobs = <<NewJob(args.kind)>>
          /\ worker = [kind |-> args.kind, found |-> args.found,
                       access_rows |-> args.access_rows, pc |-> "start",
                       session |-> "", table |-> <<>>, raised |-> "",
                       swallowed |-> "", effects |-> <<>>]

nojobs == <<engine, dbv, cbv, retrying, validations>>

At(kind, at) == worker.kind = kind /\ worker.pc = at

\* the statements of the step ran to the end; table is what the session
\* holds after them
Goto(to, table) ==
    worker' = [worker EXCEPT !.pc = to, !.table = table]

\* a statement of the try block raises: control passes to the handler of
\* line 198 (line 291)
Raise(exc, session, table) ==
    worker' = [worker EXCEPT !.pc = "except", !.raised = exc,
                             !.session = session, !.table = table]

\* db.flush() or db.commit() raises. A flush that fails leaves the session
\* inactive with what it held; a commit that fails either rolled the
\* transaction back (the session is usable again and holds the committed
\* rows) or left it inactive.
DatabaseRaises ==
    /\ \E session \in {"active", "inactive"} :
          Raise("SQLAlchemyError", session,
                IF session = "active" THEN jobs ELSE worker.table)
    /\ UNCHANGED jobs

\* an awaited call is cancelled: asyncio.CancelledError is no Exception,
\* so only the finally clause runs
Cancelled ==
    /\ worker' = [worker EXCEPT !.pc = "finally", !.raised = "CancelledError"]
    /\ UNCHANGED jobs

\* job_repo.update_progress(...); db.commit()
ProgressAndCommit(to, progress_percent, current_step) ==
    LET table == UpdateProgress(worker.table, JobId, progress_percent, current_step, now)
    IN  /\ Goto(to, table)
        /\ jobs' = table

\* job_repo.mark_failed(...); db.commit(); return
FailAndReturn(error_message) ==
    LET table == MarkFailed(worker.table, JobId, error_message, now)
    IN  /\ Goto("finally", table)
        /\ jobs' = table

\* lines 42-54 and 218-244: the session, collaborators, the first progress
Start ==
    /\ worker.pc = "start"
    /\ \/ /\ worker' = [worker EXCEPT !.pc = "load", !.session = "active",
                        !.table = UpdateProgress(jobs, JobId, 10, "Preparing", now)]
          /\ jobs' = UpdateProgress(jobs, JobId, 10, "Preparing", now)
       \/ /\ worker' = [worker EXCEPT !.pc = "except", !.session = "active",
                        !.table = jobs, !.raised = "Exception"]
          /\ UNCHANGED jobs
       \/ /\ \E session \in {"active", "inactive"} :
                worker' = [worker EXCEPT !.pc = "except", !.session = session,
                           !.table = jobs, !.raised = "SQLAlchemyError"]
          /\ UNCHANGED jobs
    /\ UNCHANGED nojobs

\* ---------------------------------------------- process_document_validation
\* lines 56-72: the document and the access check
LoadDocument ==
    /\ At("document_validation", "load")
    /\ \/ IF "document" \notin worker.found
          THEN FailAndReturn("Document not found")
          ELSE LET access == CheckUserAccess(worker.access_rows)
               IN  IF access.raised # ""
                   THEN Raise(access.raised, "active", worker.table) /\ UNCHANGED jobs
                   ELSE IF ~access.value
                   THEN FailAndReturn("Access denied for this document/project")
                   ELSE ProgressAndCommit("download", 20, "Downloading from blob storage")
       \/ DatabaseRaises
    /\ UNCHANGED nojobs

\* lines 74-83: await blob_storage.download_document, the next progress
Download ==
    /\ At("document_validation", "download")
    /\ \/ ProgressAndCommit("parse", 35, "Parsing document with Azure DI")
       \/ Raise("AzureError", "active", worker.table) /\ UNCHANGED jobs
       \/ Cancelled
       \/ DatabaseRaises
    /\ UNCHANGED nojobs

\* lines 85-99: await document_parser.parse_document and the write of its
\* result; what is raised in this try is handled at lines 100 and 111
Parse ==
    /\ At("document_validation", "parse")
    /\ \/ Goto("llm_progress", worker.table) /\ UNCHANGED jobs
       \/ /\ \E exc \in {"BusinessRuleViolation", "Exception"} :
                worker' = [worker EXCEPT !.pc = "parse_failed", !.swallowed = exc]
          /\ UNCHANGED jobs
       \/ /\ \E session \in {"active", "inactive"} :
                worker' = [worker EXCEPT !.pc = "parse_failed", !.session = session,
                           !.swallowed = "SQLAlchemyError",
                           !.table = IF session = "active" THEN jobs ELSE @]
          /\ UNCHANGED jobs
       \/ Cancelled
    /\ UNCHANGED nojobs

\* lines 100-122: mark_failed, update_validation_result, commit, return
ParseFailed ==
    /\ At("document_validation", "parse_failed")
    /\ \/ /\ worker.session = "active"
          /\ FailAndReturn("Document parsing failed")
       \/ /\ worker.session = "active"
          /\ DatabaseRaises
       \/ /\ worker.session = "inactive"
          /\ Raise("PendingRollbackError", "inactive", worker.table)
          /\ UNCHANGED jobs
    /\ UNCHANGED nojobs

\* lines 125-128
ProgressBeforeLLM ==
    /\ At("document_validation", "llm_progress")
    /\ \/ ProgressAndCommit("llm", 55, "Running LLM validation")
       \/ DatabaseRaises
    /\ UNCHANGED nojobs

\* lines 130-196: await llm_orchestrator.validate_document, whose exception
\* is swallowed at line 153; the document, the audit row, mark_completed
ValidateAndComplete ==
    /\ At("document_validation", "llm")
    /\ \/ \E llm_error \in {"", "Exception"} :
            LET table == MarkCompleted(worker.table, JobId, "validation", None, now)
            IN  /\ worker' = [worker EXCEPT !.pc = "finally", !.table = table,
                                            !.swallowed = llm_error]
                /\ jobs' = table
       \/ Cancelled
       \/ DatabaseRaises
    /\ UNCHANGED nojobs

\* ---------------------------------------------- process_estimate_generation
\* lines 246-259: the project, the user, the next progress
LoadProjectAndUser ==
    /\ At("estimate_generation", "load")
    /\ \/ IF "project" \notin worker.found
          THEN FailAndReturn("Project not found")
          ELSE IF "user" \notin worker.found
          THEN FailAndReturn("User not found for estimate generation")
          ELSE ProgressAndCommit("generate", 25, "Running estimate generator")
       \/ DatabaseRaises
    /\ UNCHANGED nojobs

Did(effect) == [worker EXCEPT !.effects = Append(@, effect)]

\* estimate_generator.py lines 169-232: steps 1 to 6 of generate_estimate,
\* up to the first await
LoadAndCheckAccess ==
    /\ At("estimate_generation", "generate")
    /\ UNCHANGED jobs
    /\ LET called == Did("generate_estimate")
           access == CheckUserAccess(worker.access_rows)
       IN  IF "project" \notin worker.found
           THEN worker' = [called EXCEPT !.pc = "except", !.raised = "PROJECT_NOT_FOUND"]
           ELSE IF access.raised # ""
           THEN worker' = [called EXCEPT !.pc = "except", !.raised = access.raised]
           ELSE IF ~access.value
           THEN worker' = [called EXCEPT !.pc = "except", !.raised = "ACCESS_DENIED"]
           ELSE \/ worker' = [called EXCEPT !.pc = "monte_carlo",
                                 !.effects = @ \o <<"access_checked", "base_cost">>]
                \/ worker' = [called EXCEPT !.pc = "except", !.raised = "Exception",
                                 !.effects = @ \o <<"access_checked">>]
    /\ UNCHANGED nojobs

\* an awaited step of generate_estimate: it returns, raises or is cancelled
Awaited(effect, to) ==
    /\ \/ worker' = [Did(effect) EXCEPT !.pc = to]
       \/ worker' = [Did(effect) EXCEPT !.pc = "except", !.raised = "Exception"]
       \/ worker' = [Did(effect) EXCEPT !.pc = "finally", !.raised = "CancelledError"]
    /\ UNCHANGED jobs

\* lines 233-252: step 7 in a thread, step 8
MonteCarlo ==
    /\ At("estimate_generation", "monte_carlo")
    /\ Awaited("monte_carlo", "narrative")
    /\ UNCHANGED nojobs

\* lines 254-263
Narrative ==
    /\ At("estimate_generation", "narrative")
    /\ Awaited("llm", "assumptions")
    /\ UNCHANGED nojobs

\* lines 268-272
Assumptions ==
    /\ At("estimate_generation", "assumptions")
    /\ Awaited("llm", "exclusions")
    /\ UNCHANGED nojobs

\* lines 277-281
Exclusions ==
    /\ At("estimate_generation", "exclusions")
    /\ Awaited("llm", "persist")
    /\ UNCHANGED nojobs

\* lines 285-384, and background_jobs.py lines 270-271: the estimate and its
\* children are flushed, the audit row is added, the progress is committed
Persist ==
    /\ At("estimate_generation", "persist")
    /\ \/ /\ worker' = [Did("estimate_row") EXCEPT !.pc = "except",
                           !.raised = "SQLAlchemyError", !.session = "inactive"]
          /\ UNCHANGED jobs
       \/ LET table == UpdateProgress(worker.table, JobId, 90, "Loading estimate details", now)
          IN  /\ worker' = [worker EXCEPT !.pc = "complete", !.table = table,
                               !.effects = @ \o <<"estimate_row", "audit_row">>]
              /\ jobs' = table
    /\ UNCHANGED nojobs

\* background_jobs.py lines 273-290
Complete ==
    /\ At("estimate_generation", "complete")
    /\ \/ LET table == MarkCompleted(worker.table, JobId, "estimate", Some(1), now)
          IN  Goto("finally", table) /\ jobs' = table
       \/ DatabaseRaises
    /\ UNCHANGED nojobs

\* ------------------------------------------------------------ both workers
\* lines 198-204 and 291-297: mark_failed and commit, whose own exception
\* is dropped
HandleException ==
    /\ worker.pc = "except"
    /\ \/ /\ worker.session = "active"
          /\ FailAndReturn(worker.raised)
       \/ /\ Goto("finally", worker.table)
          /\ UNCHANGED jobs
    /\ UNCHANGED nojobs

\* lines 205-206 and 298-299: db.close(); the worker returns, or the
\* exception nothing caught goes on to the caller
CloseAndReturn ==
    /\ worker.pc = "finally"
    /\ worker' = [worker EXCEPT !.session = "closed", !.table = <<>>,
                     !.pc = IF worker.raised = "CancelledError"
                            THEN "propagated" ELSE "returned"]
    /\ UNCHANGED jobs
    /\ UNCHANGED nojobs

NextJobs ==
    \/ Start
    \/ LoadDocument
    \/ Download
    \/ Parse
    \/ ParseFailed
    \/ ProgressBeforeLLM
    \/ ValidateAndComplete
    \/ LoadProjectAndUser
    \/ LoadAndCheckAccess
    \/ MonteCarlo
    \/ Narrative
    \/ Assumptions
    \/ Exclusions
    \/ Persist
    \/ Complete
    \/ HandleException
    \/ CloseAndReturn

SpecJobs == InitJobs /\ [][NextJobs]_vars

\* ================================================== validate_document
\* api/v1/documents.py lines 230-448, a coroutine per request. An exception in flight is
\* a record of its class, the status_code of an HTTPException and the code
\* of a BusinessRuleViolation.
Thrown(class, status_code, code) ==
    [class |-> class, status_code |-> status_code, code |-> code]

NothingThrown == Thrown("", 0, "")

HTTPException(status_code) == Thrown("HTTPException", status_code, "")

\* classes an "except Exception" clause catches: fastapi.HTTPException
\* derives from starlette's HTTPException, which derives from Exception
ExceptionClasses ==
    {"HTTPException", "BusinessRuleViolation", "TimeoutError", "HttpResponseError",
     "Exception"}

\* what document_parser.parse_document may raise (document_parser.py lines
\* 226-229 and 250-281)
ParseRaises ==
    { Thrown("BusinessRuleViolation", 0, "CIRCUIT_BREAKER_OPEN"),
      Thrown("BusinessRuleViolation", 0, "CIRCUIT_BREAKER_PROBE_ACTIVE"),
      Thrown("BusinessRuleViolation", 0, "UNSUPPORTED_FORMAT"),
      Thrown("TimeoutError", 0, ""),
      Thrown("HttpResponseError", 0, ""),
      Thrown("Exception", 0, "") }

\* lines 292-338: the handlers of the inner try around parse_document; each
\* ends by raising an HTTPException
ParseHandlers(exc) ==
    IF exc.class = "BusinessRuleViolation"
    THEN IF exc.code = "CIRCUIT_BREAKER_OPEN" THEN HTTPException(503)
         ELSE IF exc.code = "UNSUPPORTED_FORMAT" THEN HTTPException(400)
         ELSE HTTPException(500)
    ELSE HTTPException(500)

\* lines 361-366
ValidationStatusOf(suitable_for_estimation, completeness_score) ==
    IF suitable_for_estimation /\ completeness_score >= 70 THEN "PASSED"
    ELSE IF completeness_score >= 50 THEN "MANUAL_REVIEW"
    ELSE "FAILED"

MaxValidations == 2

Validations == 1..MaxValidations

InitValidate ==
    /\ NoEngine
    /\ NoJobs
    /\ sessions = <<>>
    /\ requests = <<>>
    /\ breaker = <<>>
    /\ parses = <<>>
    /\ now = 0
    /\ recorded = <<>>
    /\ retrying = <<>>
    /\ validations \in [Validations ->
          {[pc |-> "start", found |-> found, access_rows |-> access_rows,
            raised |-> NothingThrown, parse_raised |-> NothingThrown,
            validation_status |-> "", completeness_score |-> None,
            status_code |-> 0] : found \in BOOLEAN, access_rows \in 0..1}]

novalidations == <<engine, dbv, cbv, retrying, jbv>>

\* lines 253-266: raised before the try, these reach the client as they are
GetDocument(r) ==
    /\ validations[r].pc = "start"
    /\ validations' =
          IF ~validations[r].found
          THEN [validations EXCEPT ![r].pc = "responded", ![r].status_code = 404]
          ELSE IF ~CheckUserAccess(validations[r].access_rows).value
          THEN [validations EXCEPT ![r].pc = "responded", ![r].status_code = 403]
          ELSE [validations EXCEPT ![r].pc = "download"]
    /\ UNCHANGED novalidations

\* lines 269-273: await blob_storage.download_document
DownloadDocument(r) ==
    /\ validations[r].pc = "download"
    /\ \/ validations' = [validations EXCEPT ![r].pc = "parse"]
       \/ validations' = [validations EXCEPT ![r].pc = "except",
                            ![r].raised = Thrown("Exception", 0, "")]
    /\ UNCHANGED novalidations

\* lines 276-290: parse_document returns and the parsed content is saved
ParseReturns(r) ==
    /\ validations[r].pc = "parse"
    /\ validations' = [validations EXCEPT ![r].pc = "llm", ![r].validation_status = "PENDING"]
    /\ UNCHANGED novalidations

\* lines 292-338: parse_document raises; a handler of the inner try raises
\* its HTTPException, which is in flight inside the try of line 268
ParseRaisesHandled(r) ==
    /\ validations[r].pc = "parse"
    /\ \E exc \in ParseRaises :
          validations' = [validations EXCEPT
              ![r].pc = "except",
              ![r].parse_raised = exc,
              ![r].raised = ParseHandlers(exc),
              ![r].validation_status = IF exc.class = "BusinessRuleViolation"
                                    THEN @ ELSE "FAILED",
              ![r].completeness_score = IF exc.class = "BusinessRuleViolation"
                                     THEN @ ELSE Some(0)]
    /\ UNCHANGED novalidations

\* lines 344-434: the LLM validation, whose exceptions are turned into a
\* manual review, the document, the audit row, the result
ValidateAndRespond(r) ==
    /\ validations[r].pc = "llm"
    /\ \/ \E suitable \in BOOLEAN, score \in {40, 60, 80} :
             validations' = [validations EXCEPT ![r].pc = "responded", ![r].status_code = 200,
                               ![r].validation_status = ValidationStatusOf(suitable, score),
                               ![r].completeness_score = Some(score)]
       \/ validations' = [validations EXCEPT ![r].pc = "responded", ![r].status_code = 200,
                            ![r].validation_status = "MANUAL_REVIEW",
                            ![r].completeness_score = None]
       \/ validations' = [validations EXCEPT ![r].pc = "except",
                            ![r].raised = Thrown("Exception", 0, "")]
    /\ UNCHANGED novalidations

\* lines 436-448: except Exception around the whole try: the document is
\* marked FAILED and HTTPException(500) is raised
OuterHandler(r) ==
    /\ validations[r].pc = "except"
    /\ validations[r].raised.class \in ExceptionClasses
    /\ validations' = [validations EXCEPT ![r].pc = "raised",
                         ![r].raised = HTTPException(500),
                         ![r].validation_status = "FAILED",
                         ![r].completeness_score = Some(0)]
    /\ UNCHANGED novalidations

\* FastAPI answers with the status_code of the HTTPException that left the
\* endpoint
Respond(r) ==
    /\ validations[r].pc = "raised"
    /\ validations' = [validations EXCEPT ![r].pc = "responded",
                         ![r].status_code = validations[r].raised.status_code]
    /\ UNCHANGED novalidations

NextValidate ==
    \/ \E r \in Validations : GetDocument(r)
    \/ \E r \in Validations : DownloadDocument(r)
    \/ \E r \in Validations : ParseReturns(r)
    \/ \E r \in Validations : ParseRaisesHandled(r)
    \/ \E r \in Validations : ValidateAndRespond(r)
    \/ \E r \in Validations : OuterHandler(r)
    \/ \E r \in Validations : Respond(r)

SpecValidate == InitValidate /\ [][NextValidate]_vars

\* ================================================================ claims
\* what the claims call a factor's distribution (names compare as lower())
Dist(f) == Lower(f.distribution)

Supported == {"triangular", "normal", "uniform", "lognormal", "pert"}

\* a parameter that the factor's distribution requires is missing
LacksRequired(f) ==
    \/ Dist(f) \in {"triangular", "pert"}
         /\ (IsNone(f.min_value) \/ IsNone(f.most_likely) \/ IsNone(f.max_value))
    \/ Dist(f) = "uniform" /\ (IsNone(f.min_value) \/ IsNone(f.max_value))
    \/ Dist(f) \in {"normal", "lognormal"} /\ (IsNone(f.mean) \/ IsNone(f.std_dev))

\* the required parameters are present and inconsistent: max <= min, the
\* most likely value outside [min, max], or std_dev <= 0
Inconsistent(f) ==
    /\ ~LacksRequired(f)
    /\ \/ Dist(f) \in {"uniform", "triangular", "pert"}
            /\ Val(f.max_value) <= Val(f.min_value)
       \/ Dist(f) \in {"triangular", "pert"}
            /\ (Val(f.most_likely) < Val(f.min_value)
                  \/ Val(f.most_likely) > Val(f.max_value))
       \/ Dist(f) \in {"normal", "lognormal"} /\ Val(f.std_dev) <= 0

InvalidParameters(f) == LacksRequired(f) \/ Inconsistent(f)

Factors == {risk_factors[k] : k \in DOMAIN risk_factors}

\* the run has ended: a result was returned or an exception was raised
ResultReturned == pc = "done"
RunFailed == pc = "error"

\* the exception was raised by _transform_samples on column j
FailedOnFactor == RunFailed /\ j \in DOMAIN risk_factors /\ error.type # "BusinessRuleViolation"

\* ---- C1
\* C1: with an empty risk-factor mapping the run returns base_cost as mean,
\* min and max, std_dev 0, base_cost for every requested percentile, empty
\* risk_factors_applied and sensitivities, and never generates a sample.
ZeroFactorIdentity ==
    risk_factors = <<>> =>
        /\ pc \in {"start", "done"}
        /\ error = NoError
        /\ lhs_samples = <<>>
        /\ transformed = <<>>
        /\ ResultReturned =>
              /\ result.mean_cost = base_cost
              /\ result.min_cost = base_cost
              /\ result.max_cost = base_cost
              /\ result.std_dev = 0
              /\ \A key \in DOMAIN result.percentiles : result.percentiles[key] = base_cost
              /\ (confidence_levels # <<>>) => (DOMAIN result.percentiles # {})
              /\ result.risk_factors_applied = <<>>
              /\ result.sensitivities = <<>>

\* a returned zero-factor run for a base cost with a fraction of a cent
ZeroFactorWitness ==
    /\ ResultReturned
    /\ risk_factors = <<>>
    /\ base_cost = 10005
    /\ Len(confidence_levels) = 2
    /\ ~IsNone(correlation_matrix)

\* ---- C2
\* C2: in a run with at least one factor whose parameters are invalid, the
\* sample matrix is never generated and no column is ever transformed.
InvalidRejectedBeforeSampling ==
    (RunFailed /\ \E f \in Factors : InvalidParameters(f)) =>
        /\ lhs_samples = <<>>
        /\ j <= 1

\* ---- C3
\* C3: no result is returned, and the run fails with an invalid-parameter
\* error, when a factor has max <= min, most_likely outside [min, max] or
\* std_dev <= 0.
InconsistentRejected ==
    /\ (\E f \in Factors : Inconsistent(f)) => ~ResultReturned
    /\ (FailedOnFactor /\ Inconsistent(risk_factors[j])) => error.type = "ValueError"

UnsupportedNamesFactor ==
    (FailedOnFactor /\ Dist(risk_factors[j]) \notin Supported) =>
        /\ error.type = "ValueError"
        /\ error.message = "Unsupported distribution type"
        /\ error.subject = risk_factors[j].name

\* ---- C6
\* what the claim calls a violation, on matrices with entries in 1e-4
WrongShape(m) == Len(m) # n_vars \/ \E p \in DOMAIN m : Len(m[p]) # n_vars
NotSymmetric(m) == \E p, q \in 1..n_vars : m[p][q] # m[q][p]
BadDiagonal(m) == \E p \in 1..n_vars : m[p][p] # 10000
OutOfRange(m) == \E p, q \in 1..n_vars : m[p][q] < -10000 \/ m[p][q] > 10000

\* the sub-code of the first violated check, "" when the matrix passes all four
FirstViolation(m) ==
    IF WrongShape(m) THEN "INVALID_CORRELATION_MATRIX_SHAPE"
    ELSE IF NotSymmetric(m) THEN "CORRELATION_MATRIX_NOT_SYMMETRIC"
    ELSE IF BadDiagonal(m) THEN "CORRELATION_MATRIX_INVALID_DIAGONAL"
    ELSE IF OutOfRange(m) THEN "CORRELATION_MATRIX_OUT_OF_RANGE"
    ELSE ""

MatrixViolates ==
    ~IsNone(correlation_matrix) /\ FirstViolation(Val(correlation_matrix)) # ""

\* the run stopped with the sub-code of the first violation, the matrix
\* transformed from the samples still in sampling order
RejectedUnreordered ==
    /\ RunFailed
    /\ error.type = "BusinessRuleViolation"
    /\ error.code = FirstViolation(Val(correlation_matrix))
    /\ ic_samples = <<>>
    /\ \A k \in 1..n_vars :
          Col(transformed, k) = TransformSamples(Col(lhs_samples, k), risk_factors[k]).col

SamplerAccepts(f) == TransformSamples(<<12>>, f).ok

FallbackCall ==
    /\ ~IsNone(correlation_matrix)
    /\ FirstViolation(Val(correlation_matrix)) = ""
    /\ ~Cholesky(Val(correlation_matrix)).ok

\* what the call returns when it is made with correlation_matrix = None
\* (only evaluated for factors the sampler accepts)
UncorrelatedResult ==
    LET lhs == LatinHypercube(random_seed, iterations, n_vars)
        samples == [i \in 1..iterations |-> [k \in 1..n_vars |->
                       TransformSamples(Col(lhs, k), risk_factors[k]).col[i]]]
    IN AnalysisResult(base_cost, samples, confidence_levels,
                      FactorNames(risk_factors), iterations)

\* C7: with a matrix that passes the checks and is not positive-definite the
\* run raises nothing once the factors are transformed, the inducer returns
\* the samples as it got them, and the result is that of the call without matrix.
FallbackEqualsUncorrelated ==
    FallbackCall =>
        /\ pc \in {"induce", "aggregate", "done"} => error = NoError
        /\ RunFailed => FailedOnFactor
        /\ pc \in {"aggregate", "done"} =>
              /\ ic_result = ic_samples
              /\ transformed = ic_samples
        /\ ResultReturned => (n_vars > 0 => result = UncorrelatedResult)

\* a fallback run of two factors that returned finite statistics
FallbackWitness ==
    /\ FallbackCall
    /\ ResultReturned
    /\ n_vars = 2
    /\ result.mean_cost # NaN

\* ---- C8
\* the keys of the dict run_analysis returns when correlation is applied
ResultKeys == {"base_cost", "mean_cost", "std_dev", "percentiles", "min_cost", "max_cost",
               "iterations", "risk_factors_applied", "sensitivities"}

\* C8: the result of a fallback run carries a warning signal: a field that
\* the result of a run with applied correlation does not have.
FallbackCarriesWarning ==
    (FallbackCall /\ ResultReturned /\ n_vars > 0) => DOMAIN result # ResultKeys

\* ---- C9
Count(v, x) == Cardinality({i \in DOMAIN v : v[i] = x})

SameMultiset(v, w) == \A x \in Range(v) \cup Range(w) : Count(v, x) = Count(w, x)

\* C9: every column of the matrix the correlation inducer returns holds the
\* same multiset of values as that column of its input.
MarginalsPreserved ==
    pc = "ic_done" =>
        /\ Len(ic_result) = Len(ic_samples)
        /\ \A k \in 1..Len(ic_samples[1]) :
              SameMultiset(Col(ic_result, k), Col(ic_samples, k))

\* the inducer moved values of a column that has repeated values
MarginalsWitness ==
    /\ pc = "ic_done"
    /\ ic_result # ic_samples
    /\ Cholesky(Val(correlation_matrix)).ok
    /\ \E k \in 1..Len(ic_samples[1]) :
          /\ Col(ic_result, k) # Col(ic_samples, k)
          /\ \E p, q \in 1..Len(ic_samples) : p # q /\ ic_samples[p][k] = ic_samples[q][k]

\* ---- C10
\* base_cost x (1 + sum of the row's samples), in 1e-7 dollar, not clamped
CostOfRow(i) == base_cost * (10000 + SumSeq(transformed[i]))

RowCosts == {CostOfRow(i) : i \in 1..iterations}

\* C10: the statistics are those of the costs base_cost x (1 + row sum) of
\* the rows; a row whose sum is below -1 enters them with its negative cost.
AdditiveUnclampedCost ==
    (ResultReturned /\ n_vars > 0 /\ ~MatrixHasNaN(transformed)) =>
        /\ result.min_cost = Round2(CHOOSE c \in RowCosts : \A d \in RowCosts : c <= d, 1)
        /\ result.max_cost = Round2(CHOOSE c \in RowCosts : \A d \in RowCosts : c >= d, 1)
        /\ result.mean_cost = Round2(SumSeq([i \in 1..iterations |-> CostOfRow(i)]), iterations)
        /\ (base_cost > 0 /\ \E i \in 1..iterations : SumSeq(transformed[i]) < -10100) =>
              result.min_cost < 0

\* a returned run with a row summing below -1 and one summing above -1
NegativeCostWitness ==
    /\ ResultReturned
    /\ n_vars > 0
    /\ ~MatrixHasNaN(transformed)
    /\ base_cost > 0
    /\ \E i \in 1..iterations : SumSeq(transformed[i]) < -10100
    /\ \E i \in 1..iterations : SumSeq(transformed[i]) > -10000
    /\ result.min_cost < 0
    /\ result.max_cost > 0

\* ---- C11
\* a <= b on floats: false when either side is NaN
Le(a, b) == a # NaN /\ b # NaN /\ a <= b

\* C11: in every returned result the percentiles are non-decreasing in the
\* confidence level and each lies between min_cost and max_cost inclusive.
PercentilesOrdered ==
    ResultReturned =>
        /\ \A p, q \in DOMAIN result.percentiles :
              p <= q => Le(result.percentiles[p], result.percentiles[q])
        /\ \A p \in DOMAIN result.percentiles :
              /\ Le(result.min_cost, result.percentiles[p])
              /\ Le(result.percentiles[p], result.max_cost)

AloneOutcome(t) ==
    CHOOSE o \in RunOutcomes(tasks[t].args.base_cost, tasks[t].args.risk_factors, None,
                             Levels3(tasks[t].args),
                             tasks[t].args.monte_carlo_iterations,
                             tasks[t].args.monte_carlo_iterations,
                             analyzers[tasks[t].analyzer].random_seed) : TRUE

\* C13: overlapping generate_estimate calls, also on one analyzer, do not
\* affect each other: each run draws the number of samples requested for it,
\* reports that number as iterations and returns what it returns alone.
RunsIndependent ==
    \A t \in DOMAIN tasks :
        /\ tasks[t].run.pc = "sampled" =>
              tasks[t].run.n_drawn = tasks[t].args.monte_carlo_iterations
        /\ tasks[t].run.pc = "returned" =>
              /\ tasks[t].run.outcome.error = NoError =>
                    tasks[t].run.outcome.result.iterations =
                        tasks[t].args.monte_carlo_iterations
              /\ tasks[t].run.outcome = AloneOutcome(t)

\* ---- C14
\* C14: run_analysis executes on a thread other than the event loop's, and
\* generate_estimate goes on past its await only once that call has
\* returned, with the value or the exception of the call.
OffloadedToThread ==
    \A t \in DOMAIN tasks :
        /\ tasks[t].run.pc # "none" => tasks[t].run.thread # MainThread
        /\ tasks[t].pc \in {"step6"} => tasks[t].run.pc = "none"
        /\ tasks[t].pc \in {"step8", "raised"} =>
              /\ tasks[t].run.pc = "returned"
              /\ tasks[t].risk_results = tasks[t].run.outcome.result
              /\ tasks[t].raised = tasks[t].run.outcome.error

\* a coroutine has resumed with its result while the run of another is
\* still executing on its thread
OffloadWitness ==
    \E t, u \in DOMAIN tasks :
        /\ tasks[t].pc = "step8"
        /\ tasks[t].risk_results # <<>>
        /\ tasks[t].risk_results.risk_factors_applied # <<>>
        /\ tasks[u].pc = "await"
        /\ tasks[u].run.pc = "sampled"
        /\ tasks[u].run.thread = ToThread(u)

\* ---- C15
\* C15: a returned run with at least one factor and base_cost >= 0 has one
\* sensitivity per name of risk_factors_applied, the names being those of
\* the factors in input order, each a number in [-1, 1] (units of 1e-4).
SensitivitiesDefined ==
    (ResultReturned /\ n_vars > 0 /\ base_cost >= 0) =>
        /\ result.risk_factors_applied = FactorNames(risk_factors)
        /\ DOMAIN result.sensitivities = Range(result.risk_factors_applied)
        /\ \A name \in DOMAIN result.sensitivities :
              /\ result.sensitivities[name] # NaN
              /\ Le(-10000, result.sensitivities[name])
              /\ Le(result.sensitivities[name], 10000)

\* ---- C16
\* the calls made on the session of request r, in order
CallsOn(r) == sessions[requests[r].db].calls

Times(calls_made, method) ==
    Cardinality({k \in DOMAIN calls_made : calls_made[k] = method})

Finished(r) == requests[r].pc = "done"

\* each get_db call has its own session, closed once, as the last call on it
OwnSessionClosedLast ==
    /\ \A r, q \in Requests :
          (r # q /\ requests[r].db # 0) => requests[r].db # requests[q].db
    /\ \A r \in Requests :
          /\ requests[r].db # 0 => Times(CallsOn(r), "close") = (IF Finished(r) THEN 1 ELSE 0)
          /\ Finished(r) => CallsOn(r)[Len(CallsOn(r))] = "close"

\* C16 as stated: a body that finishes normally gives one commit and no
\* rollback; a body that raises gives a rollback, no commit, and the same
\* exception propagates; the session is the request's own, closed once, last.
SessionLifecycleAsStated ==
    /\ OwnSessionClosedLast
    /\ \A r \in Requests :
          Finished(r) =>
              /\ requests[r].body = "finished" =>
                    /\ Times(CallsOn(r), "commit") = 1
                    /\ Times(CallsOn(r), "rollback") = 0
              /\ requests[r].body = "raised" =>
                    /\ Times(CallsOn(r), "rollback") >= 1
                    /\ Times(CallsOn(r), "commit") = 0
                    /\ requests[r].propagated = requests[r].thrown

\* C16, amended: after a body that finishes normally commit is called once
\* and rollback only if that commit raises (then once, after it); after a
\* body that raises an Exception rollback is called once and commit never;
\* after a body that raises another BaseException neither is called. What
\* propagates is the exception of the body or of commit, unless rollback
\* raises, then its exception. The session is the request's own, closed
\* once, as the last call on it.
SessionLifecycle ==
    /\ OwnSessionClosedLast
    /\ \A r \in Requests :
          Finished(r) =>
              /\ requests[r].body = "finished" =>
                    \/ /\ CallsOn(r) = <<"commit", "close">>
                       /\ requests[r].propagated = NoExc
                    \/ /\ CallsOn(r) = <<"commit", "rollback", "close">>
                       /\ requests[r].propagated.origin \in {"commit", "rollback"}
              /\ (requests[r].body = "raised" /\ requests[r].thrown.is_exception) =>
                    /\ CallsOn(r) = <<"rollback", "close">>
                    /\ \/ requests[r].propagated = requests[r].thrown
                       \/ requests[r].propagated.origin = "rollback"
              /\ (requests[r].body = "raised" /\ ~requests[r].thrown.is_exception) =>
                    /\ CallsOn(r) = <<"close">>
                    /\ requests[r].propagated = requests[r].thrown

\* one request whose commit raised and was rolled back, another whose body
\* was cancelled, both closed
SessionLifecycleWitness ==
    \E r, q \in Requests :
        /\ Finished(r) /\ Finished(q)
        /\ requests[r].body = "finished"
        /\ CallsOn(r) = <<"commit", "rollback", "close">>
        /\ requests[r].propagated.origin = "commit"
        /\ requests[q].body = "raised"
        /\ ~requests[q].thrown.is_exception
        /\ CallsOn(q) = <<"close">>

\* ---- C17
\* C17: while the breaker is HALF_OPEN, from the call that made it so to the
\* next recorded success or failure, every can_proceed call of a parse is
\* rejected with CIRCUIT_BREAKER_PROBE_ACTIVE.
ProbeExclusive ==
    [][\A p \in Parses :
          (breaker.state = HALF_OPEN /\ parses[p].pc = "start" /\ parses'[p] # parses[p]) =>
              /\ parses'[p].pc = "start"
              /\ parses'[p].last = "CIRCUIT_BREAKER_PROBE_ACTIVE"
              /\ breaker' = breaker]_vars

\* the breaker is HALF_OPEN, the probe is being analysed and another parse
\* has been rejected for it
ProbeWitness ==
    /\ breaker.state = HALF_OPEN
    /\ breaker.half_open_probe_active
    /\ \E p, q \in Parses :
          /\ parses[p].pc = "analyze"
          /\ parses[q].pc = "start"
          /\ parses[q].last = "CIRCUIT_BREAKER_PROBE_ACTIVE"

\* ---- C18
\* C18: the breaker is CLOSED only with fewer than threshold failures
\* recorded since the last recorded success, and OPEN only with at least
\* threshold of them, unless the failure of a HALF_OPEN probe opened it.
OpensAtThreshold ==
    /\ breaker.state = CLOSED => recorded.since_success < breaker.threshold
    /\ breaker.state = OPEN =>
          \/ recorded.since_success >= breaker.threshold
          \/ recorded.opened_by = "probe"

\* ---- C19
Attempts == retrying.outcomes

\* C19: an attempt that raises one of the four fatal errors is the last
\* attempt: the error propagates at once and the function is not called again.
FatalNotRetried ==
    \A k \in DOMAIN Attempts :
        Attempts[k].raises \in FATAL_ERRORS =>
            /\ k = Len(Attempts)
            /\ retrying.pc = "raised"
            /\ retrying.raised = Attempts[k].raises

\* ---- C20
\* an error that is not fatal and is of one of the transient classes
TransientOnly(class) == IsInstance(class, TRANSIENT_ERRORS) /\ ~IsInstance(class, FATAL_ERRORS)

\* C20: a call whose attempts all raise transient errors is attempted 3
\* times and then raises the last error; an attempt that returns ends the
\* call with its value; an error neither transient nor fatal ends the call
\* at the attempt that raised it.
RetryPolicy ==
    /\ Len(Attempts) <= 3
    /\ (\A k \in DOMAIN Attempts : Attempts[k].raises # ""
                                     /\ TransientOnly(Attempts[k].raises)) =>
          /\ Len(Attempts) < 3 => retrying.pc \in {"call", "sleep"}
          /\ Len(Attempts) = 3 => /\ retrying.pc = "raised"
                                  /\ retrying.raised = Attempts[3].raises
    /\ \A k \in DOMAIN Attempts :
          /\ Attempts[k].raises = "" =>
                /\ k = Len(Attempts)
                /\ retrying.pc = "returned"
                /\ retrying.returned = Some(Attempts[k].value)
          /\ (Attempts[k].raises # ""
                /\ ~IsInstance(Attempts[k].raises, TRANSIENT_ERRORS \cup FATAL_ERRORS)) =>
                /\ k = Len(Attempts)
                /\ retrying.pc = "raised"
                /\ retrying.raised = Attempts[k].raises

\* three attempts raised transient errors and the last one propagated
RetryWitness ==
    /\ Len(Attempts) = 3
    /\ \A k \in DOMAIN Attempts : Attempts[k].raises # "" /\ TransientOnly(Attempts[k].raises)
    /\ Attempts[3].raises # Attempts[2].raises
    /\ retrying.pc = "raised"
    /\ retrying.raised = Attempts[3].raises
    /\ retrying.attempt_number = 3

\* ---- C22
TerminalStatuses == {"completed", "failed"}

\* update_progress as the claim states it, on every row the session holds
UpdateProgressAsStated ==
    \A job_id \in DOMAIN jobs :
        LET before == jobs[job_id]
            after == UpdateProgress(jobs, job_id, 25, "Loading inputs", now)[job_id]
        IN  /\ before.status = "pending" =>
                /\ after.status = "running"
                /\ after.started_at = Some(now)
            /\ before.status # "pending" =>
                /\ after.status = before.status
                /\ after.started_at = before.started_at

\* C22: update_progress moves a pending job to running and records
\* started_at, and leaves every other status as it is; and no repository
\* operation changes the status of a job that is completed or failed.
JobStatusForward ==
    /\ []UpdateProgressAsStated
    /\ [][\A job_id \in DOMAIN jobs :
            jobs[job_id].status \in TerminalStatuses =>
                jobs'[job_id].status = jobs[job_id].status]_vars

\* ---- C21
\* C21: once the worker has returned, the committed job is completed with
\* its result_data, no step having raised, or failed with an error_message;
\* it is not left pending or running.
JobEndsTerminal ==
    worker.pc = "returned" =>
        LET job == jobs[JobId]
        IN  /\ job.status \in TerminalStatuses
            /\ job.status = "completed" =>
                  /\ ~IsNone(job.result_data)
                  /\ worker.raised = ""
                  /\ worker.swallowed = ""
            /\ job.status = "failed" => ~IsNone(job.error_message)

\* ---- C23
Effects == worker.effects

\* what generate_estimate does after step 2
Guarded == {"base_cost", "monte_carlo", "llm", "estimate_row", "audit_row"}

\* C23: a call of generate_estimate for a user without a ProjectAccess row
\* for the project raises ACCESS_DENIED having computed no base cost, run no
\* Monte Carlo analysis, made no LLM call and written no estimate or audit
\* row; and in every call each of these comes after a successful access check.
AccessCheckedFirst ==
    /\ \A i \in DOMAIN Effects :
          Effects[i] \in Guarded =>
              \E k \in 1..(i - 1) : Effects[k] = "access_checked"
    /\ (Len(Effects) > 0 /\ worker.access_rows = 0) =>
          /\ Effects = <<"generate_estimate">>
          /\ worker.raised = "ACCESS_DENIED"

AccessDeniedWitness ==
    /\ worker.access_rows = 0
    /\ Effects = <<"generate_estimate">>
    /\ worker.raised = "ACCESS_DENIED"
    /\ worker.pc = "returned"
    /\ jobs[JobId].status = "failed"

\* ---- C24
\* lines 365-367: the correlated scores of the call, normals @ L.T
CorrelatedScores ==
    LET L == Cholesky(Val(correlation_matrix)).L
        rows == Len(ic_samples)
        columns == Len(ic_samples[1])
        ranked == [k \in 1..columns |-> Rank2(Col(ic_samples, k))]
    IN [i \in 1..rows |-> [k \in 1..columns |->
           SumSeq([m \in 1..columns |->
               NormPpf24(((ranked[m][i] - 1) * 12) \div rows) * L[k][m]])]]

\* the ranks a row may take among the scores of its column: one rank where
\* the score is unlike the others, a run of ranks where scores are equal
RanksOf(scores, i) ==
    {r \in 1..Len(scores) :
        /\ Cardinality({q \in DOMAIN scores : scores[q] < scores[i]}) < r
        /\ r <= Cardinality({q \in DOMAIN scores : scores[q] <= scores[i]})}

\* C24: when the Cholesky decomposition succeeds, the value returned at a
\* row of a column is the k-th smallest input value of that column, k being
\* the rank of the row's correlated score within the column (scores that are
\* numbers: a NaN has no rank).
ValuesFollowScoreRanks ==
    (pc = "ic_done" /\ Cholesky(Val(correlation_matrix)).ok /\ ~MatrixHasNaN(ic_samples)) =>
        \A k \in 1..Len(ic_samples[1]), i \in 1..Len(ic_samples) :
            \E r \in RanksOf(Col(CorrelatedScores, k), i) :
                ic_result[i][k] = Sort(Col(ic_samples, k))[r]

\* correlation was induced and moved values of a column to other rows
ScoreRanksWitness ==
    /\ pc = "ic_done"
    /\ Cholesky(Val(correlation_matrix)).ok
    /\ Len(ic_samples[1]) = 2
    /\ Col(ic_result, 2) # Col(ic_samples, 2)
    /\ \A p, q \in 1..Len(ic_samples) : p # q => ic_samples[p][2] # ic_samples[q][2]

\* ---- C28
IsIdentity(m) ==
    \A p \in DOMAIN m : \A q \in DOMAIN m[p] : m[p][q] = IF p = q THEN 10000 ELSE 0

\* C28: with the identity correlation matrix the inducer returns the sample
\* matrix it was given, repeated values or not.
IdentityLeavesSamples ==
    (pc = "ic_done" /\ IsIdentity(Val(correlation_matrix))) => ic_result = ic_samples

\* the identity was applied to two columns, one of them with repeated values
IdentityWitness ==
    /\ pc = "ic_done"
    /\ IsIdentity(Val(correlation_matrix))
    /\ Len(ic_samples[1]) = 2
    /\ ic_result = ic_samples
    /\ \E p, q \in 1..Len(ic_samples) : p # q /\ ic_samples[p][1] = ic_samples[q][1]
    /\ \E p \in 1..(Len(ic_samples) - 1) : ic_samples[p][2] > ic_samples[p + 1][2]

\* ---- C25
\* C25: whenever the breaker is OPEN, a call of can_proceed either raises
\* BusinessRuleViolation CIRCUIT_BREAKER_OPEN, the timeout not having elapsed
\* since the last recorded failure, or moves the breaker to HALF_OPEN and
\* returns; it raises nothing else.
OpenCallsAnswered ==
    breaker.state = OPEN =>
        LET call == CanProceed(breaker, now)
        IN  \/ /\ call.raised = NoError
               /\ call.breaker.state = HALF_OPEN
               /\ now - Val(breaker.last_failure_time) >= breaker.timeout_seconds
            \/ /\ call.raised.type = "BusinessRuleViolation"
               /\ call.raised.code = "CIRCUIT_BREAKER_OPEN"
               /\ now - Val(breaker.last_failure_time) < breaker.timeout_seconds

\* ---- C27
InFlight == {p \in Parses : parses[p].pc = "analyze"}

\* C27: the breaker is HALF_OPEN with its probe marked active only while a
\* request is in flight: the probe's end, however it ends, leaves HALF_OPEN.
ProbeEndLeavesHalfOpen ==
    (breaker.state = HALF_OPEN /\ breaker.half_open_probe_active) => InFlight # {}

\* ---- C26
\* C26: a request whose parse was rejected with CIRCUIT_BREAKER_OPEN is
\* answered 503, one rejected with UNSUPPORTED_FORMAT is answered 400.
RejectionStatus ==
    \A r \in Validations :
        validations[r].pc = "responded" =>
            /\ validations[r].parse_raised.code = "CIRCUIT_BREAKER_OPEN" =>
                  validations[r].status_code = 503
            /\ validations[r].parse_raised.code = "UNSUPPORTED_FORMAT" =>
                  validations[r].status_code = 400

\* ---- C29
DistinctLevels ==
    \A p, q \in DOMAIN confidence_levels :
        p # q => confidence_levels[p] # confidence_levels[q]

\* the K-th percentile of the risk-adjusted costs of the run, as reported
KthPercentile(K) ==
    IF n_vars = 0 THEN base_cost
    ELSE LET value == Percentile(RiskAdjustedCosts(base_cost, transformed), K)
         IN IF value = NaN THEN NaN ELSE Round2(value, 1)

\* C29: for distinct requested levels the percentiles mapping of a returned
\* result has one entry per level, under the key pK of the level K percent,
\* and every entry pK holds the K-th percentile of the risk-adjusted costs.
PercentileEntries ==
    (ResultReturned /\ DistinctLevels) =>
        /\ Cardinality(DOMAIN result.percentiles) = Len(confidence_levels)
        /\ \A i \in DOMAIN confidence_levels :
              confidence_levels[i] \in DOMAIN result.percentiles
        /\ \A K \in DOMAIN result.percentiles :
              result.percentiles[K] = KthPercentile(K)

====
